---- MODULE Spec2Model ----
(***************************************************************************)
(* A model of logkv::Store<std::map, std::string, std::string>             *)
(* (include/logkv/store.h): the in-memory map, the framed event log and    *)
(* snapshot files of one data directory, and the public operations.        *)
(* Files are byte sequences; frames, headers and checksums are laid out as *)
(* writeFrame lays them out and parsed as readFrame parses them.           *)
(***************************************************************************)
EXTENDS Integers, Sequences, FiniteSets, TLC

(***************************************************************************)
(* Bounds of the model.                                                    *)
(***************************************************************************)
\* Most calls that change the map or take a snapshot in one behaviour
\* (update, erase, operator[], persist, save, clear).
MaxCalls == 3
\* Most Store objects constructed on the directory, one after the other.
MaxSessions == 2
\* Most environment faults (failed or torn writes, failed renames and
\* removals, kills) in one behaviour.
MaxFaults == 1
\* the highest generation of a file in a directory that is given
MaxDirGen == 2

(***************************************************************************)
(* Program constants.                                                      *)
(***************************************************************************)
MinCRC32PayloadSize == 512
MaxBufferSize == 536870912

\* Keys and values the callers submit (std::string). The empty string is
\* the empty value of the mapped type.
Keys == {<<1>>, <<2>>}
emptyValue == <<>>
Vals == {emptyValue, <<7>>}
\* Buffer sizes the constructor and setBufferSize are called with.
BufSizes == {6, 8}

NoFile == <<"none", 0>>

(***************************************************************************)
(* Byte helpers.                                                           *)
(***************************************************************************)
Min(a, b) == IF a < b THEN a ELSE b

\* s[from + 1 .. from + n], cut at the end of s (a short read).
Slice(s, from, n) ==
  SubSeq(s, from + 1, Min(Len(s), from + n))

RECURSIVE XorBits(_, _)
XorBits(a, b) ==
  IF a = 0 THEN b
  ELSE IF b = 0 THEN a
  ELSE (((a % 2) + (b % 2)) % 2) + 2 * XorBits(a \div 2, b \div 2)

xor8 == [a \in 0..255 |-> [b \in 0..255 |-> XorBits(a, b)]]

Xor16(a, b) ==
  256 * xor8[a \div 256][b \div 256] + xor8[(a % 256)][(b % 256)]

\* little-endian value of a byte sequence (memcpy into a zeroed integer)
RECURSIVE LittleEndian(_)
LittleEndian(bs) ==
  IF bs = <<>> THEN 0 ELSE bs[1] + 256 * LittleEndian(Tail(bs))

\* the n low bytes of v, little-endian (memcpy out of an integer)
RECURSIVE ToLittleEndian(_, _)
ToLittleEndian(v, n) ==
  IF n = 0 THEN <<>> ELSE <<v % 256>> \o ToLittleEndian(v \div 256, n - 1)

(***************************************************************************)
(* CRC-16/XMODEM: width=16 poly=0x1021 init=0 refin=false refout=false.    *)
(***************************************************************************)
RECURSIVE Crc16Shift(_, _)
Crc16Shift(crc, n) ==
  IF n = 0 THEN crc
  ELSE Crc16Shift(IF crc >= 32768
                    THEN Xor16((crc * 2) % 65536, 4129)
                    ELSE crc * 2, n - 1)

crc16Table == [i \in 0..255 |-> Crc16Shift(i * 256, 8)]

RECURSIVE Crc16Upd(_, _)
Crc16Upd(crc, data) ==
  IF data = <<>> THEN crc
  ELSE Crc16Upd(Xor16((crc % 256) * 256,
                      crc16Table[xor8[crc \div 256][data[1]]]),
                Tail(data))

\* a checksum that is the same for every payload
NoChecksum(data) == 0

computeCRC16(data) == Crc16Upd(0, data)

(***************************************************************************)
(* CRC-32C (Castagnoli), reflected, poly 0x82F63B78. A 32-bit value is the *)
(* pair <<high half, low half>> of 16-bit numbers.                         *)
(***************************************************************************)
RECURSIVE Crc32Shift(_, _)
Crc32Shift(crc, n) ==
  IF n = 0 THEN crc
  ELSE LET sh == <<crc[1] \div 2, (crc[2] \div 2) + 32768 * (crc[1] % 2)>>
       IN Crc32Shift(IF crc[2] % 2 = 1
                       THEN <<Xor16(sh[1], 33526), Xor16(sh[2], 15224)>>
                       ELSE sh, n - 1)

crc32Table == [i \in 0..255 |-> Crc32Shift(<<0, i>>, 8)]

\* (crc >> 8) ^ entry
Crc32Step(crc, entry) ==
  <<Xor16(crc[1] \div 256, entry[1]),
    Xor16((crc[2] \div 256) + 256 * (crc[1] % 256), entry[2])>>

RECURSIVE Crc32Upd(_, _)
Crc32Upd(crc, data) ==
  IF data = <<>> THEN crc
  ELSE Crc32Upd(Crc32Step(crc, crc32Table[xor8[crc[2] % 256][data[1]]]),
                Tail(data))

computeCRC32(data) ==
  LET c == Crc32Upd(<<65535, 65535>>, data)
  IN <<Xor16(c[1], 65535), Xor16(c[2], 65535)>>

(***************************************************************************)
(* serializer<VarUint<uint64_t>> and serializer<std::string>.              *)
(* A read returns [used, threw, val]: the bytes needed or consumed, whether *)
(* it raised, and the value (the old one when nothing was read).           *)
(***************************************************************************)
MAX_AUTOSER_BYTES == 1073741824

RECURSIVE VarUintBytes(_)
VarUintBytes(v) ==
  IF v >= 128 THEN <<(v % 128) + 128>> \o VarUintBytes(v \div 128)
  ELSE <<v>>

VarUintGetSize(v) == Len(VarUintBytes(v))

\* result | (part << 7 * i), exact up to MAX_AUTOSER_BYTES; every larger
\* value is kept as MAX_AUTOSER_BYTES + 1, which the callers reject alike.
VarUintOr(result, part, i) ==
  IF result > MAX_AUTOSER_BYTES THEN MAX_AUTOSER_BYTES + 1
  ELSE IF part = 0 THEN result
  ELSE IF i < 4 THEN result + part * (128 ^ i)
  ELSE IF i = 4 /\ part < 4 THEN result + part * 268435456
  ELSE IF i = 4 /\ part = 4 /\ result = 0 THEN MAX_AUTOSER_BYTES
  ELSE MAX_AUTOSER_BYTES + 1

\* the loop of serializer<VarUint<uint64_t>>::read over src[i + 1 ..]
RECURSIVE VarUintReadLoop(_, _, _)
VarUintReadLoop(src, i, result) ==
  IF i >= Len(src) THEN [used |-> Len(src) + 1, threw |-> FALSE, val |-> 0]
  ELSE IF i >= 10 THEN [used |-> 0, threw |-> TRUE, val |-> 0]
  ELSE LET byte == src[i + 1]
           part == byte % 128
       IN IF i = 9 /\ part > 1
            THEN [used |-> 0, threw |-> TRUE, val |-> 0]
          ELSE IF byte < 128
            THEN [used |-> i + 1, threw |-> FALSE,
                  val |-> VarUintOr(result, part, i)]
          ELSE VarUintReadLoop(src, i + 1, VarUintOr(result, part, i))

VarUintRead(src) == VarUintReadLoop(src, 0, 0)

get_size(obj) == VarUintGetSize(Len(obj)) + Len(obj)

is_empty(obj) == Len(obj) = 0

\* the bytes DynamicBytesSerializer::write stores when they fit
SerBytes(obj) == VarUintBytes(Len(obj)) \o obj

\* DynamicBytesSerializer::read of src into a value that was old
SerRead(src, old) ==
  LET lv == VarUintRead(src)
  IN IF lv.threw THEN [used |-> 0, threw |-> TRUE, val |-> old]
     ELSE IF lv.used > Len(src) THEN [used |-> lv.used, threw |-> FALSE, val |-> old]
     ELSE IF lv.val > MAX_AUTOSER_BYTES THEN [used |-> 0, threw |-> TRUE, val |-> old]
     ELSE IF Len(src) < lv.used + lv.val
       THEN [used |-> lv.used + lv.val, threw |-> FALSE, val |-> old]
     ELSE [used |-> lv.used + lv.val, threw |-> FALSE,
           val |-> SubSeq(src, lv.used + 1, lv.used + lv.val)]

(***************************************************************************)
(* The frame writeFrame puts on disk for a payload.                        *)
(***************************************************************************)
FrameHeader(payload, forceCRC32) ==
  LET payloadSize == Len(payload)
      extra == payloadSize \div 32
      isCRC32 == forceCRC32 \/ payloadSize >= MinCRC32PayloadSize
      nExtra == IF extra = 0 THEN 0
                ELSE IF extra <= 255 THEN 1
                ELSE IF extra <= 65535 THEN 2 ELSE 3
      control == (payloadSize % 32) + (IF isCRC32 THEN 32 ELSE 0) + 64 * nExtra
      crc32 == computeCRC32(payload)
  IN <<control>> \o ToLittleEndian(extra, nExtra)
       \o (IF isCRC32
             THEN ToLittleEndian(crc32[2], 2) \o ToLittleEndian(crc32[1], 2)
             ELSE ToLittleEndian(computeCRC16(payload), 2))

FrameBytes(payload, forceCRC32) == FrameHeader(payload, forceCRC32) \o payload

(***************************************************************************)
(* The store and its directory as one record m, so that the private        *)
(* methods compose as functions:                                           *)
(*   files      name -> bytes, the regular files of the data directory     *)
(*   objects    objects_ (a function from the keys present to their value) *)
(*   events     events_: the name of the open event file, or NoFile        *)
(*   buffer     buffer_[0 .. writeOffset_): the bytes written or read       *)
(*   bufSize    buffer_.size()                                             *)
(*   readOffset readOffset_                                                *)
(*   time       time_, the generation                                      *)
(*   loaded     loaded_                                                    *)
(*   exc        the exception in flight, or NoExc                          *)
(*   wfail      n > 0: the n-th fwrite of a frame from here fails          *)
(*   cut        the bytes of the failing frame that reach the file         *)
(***************************************************************************)
NoExc == "none"

forceCRC32 == FALSE

RR_Success == 0
RR_Frame_EOF == 1
RR_Frame_Underflow == 2
RR_Frame_Corrupted == 3
RR_Object_Corrupted == 4
\* the deserializer raised
RR_Threw == RR_Object_Corrupted + 1

\* a snapshot written in place, under its final name
InPlaceName(g) == <<"snapshot", g>>

SnapshotName(g) == <<"snapshot", g>>
EventsName(g) == <<"events", g>>
\* tmp_snapshot_<pid>_<nanos>_<gen>: no extension, a stem that is not a number
TempName(g) == <<"tmp", g>>

writeOffset(m) == Len(m.buffer)

MapSet(o, k, v) == [x \in DOMAIN o \cup {k} |-> IF x = k THEN v ELSE o[x]]
MapErase(o, k) == [x \in DOMAIN o \ {k} |-> o[x]]
EmptyMap == [x \in {} |-> <<>>]

AppendFile(files, f, bytes) ==
  IF f \in DOMAIN files THEN [files EXCEPT ![f] = @ \o bytes] ELSE files

RemoveFile(files, f) == [x \in DOMAIN files \ {f} |-> files[x]]

\* how many bytes of frame a failing fwrite leaves in the file: cut of
\* them, or all but -cut when cut is negative
CutLen(frame, cut) ==
  IF cut < 0 THEN Len(frame) + cut ELSE Min(cut, Len(frame))

\* fwrite of the header and the payload, fflush; writeOffset_ = 0.
\* With a null FILE* the calls are undefined: the process dies.
writeFrame(m, f) ==
  IF m.exc # NoExc \/ writeOffset(m) = 0 THEN m
  ELSE IF f = NoFile THEN [m EXCEPT !.exc = "crash"]
  ELSE LET frame == FrameBytes(m.buffer, forceCRC32)
       IN IF m.wfail = 1
            THEN [m EXCEPT !.files = AppendFile(@, f, SubSeq(frame, 1, CutLen(frame, m.cut))),
                           !.exc = "file write error", !.wfail = 0]
          ELSE [m EXCEPT !.files = AppendFile(@, f, frame),
                         !.buffer = <<>>,
                         !.wfail = IF @ > 0 THEN @ - 1 ELSE 0]

flush(m, f) == writeFrame(m, f)

\* fclose(events_); events_ = nullptr
closeFile(m) ==
  IF m.exc # NoExc THEN m ELSE [m EXCEPT !.events = NoFile]

closeEventsFile(m) ==
  IF m.exc # NoExc \/ m.events = NoFile THEN m
  ELSE closeFile(flush(m, m.events))

\* an open that creates the file with the first write
openEventsFileLazy(m) ==
  IF m.exc # NoExc THEN m
  ELSE [m EXCEPT !.buffer = <<>>, !.events = EventsName(m.time)]

openEventsFile(m) ==
  IF m.exc # NoExc THEN m
  ELSE [m EXCEPT !.buffer = <<>>,
                 !.events = EventsName(m.time),
                 !.files = IF EventsName(m.time) \in DOMAIN @ THEN @
                           ELSE @ @@ (EventsName(m.time) :> <<>>)]

RECURSIVE GrowTarget(_, _)
GrowTarget(targetSz, used) ==
  IF targetSz < used THEN GrowTarget(targetSz * 2, used) ELSE targetSz

RECURSIVE writeObject(_, _, _)
\* writeObject after its flush left the store in m: the buffer grows until
\* the used bytes of obj fit, and the write is tried again
writeObjectRetry(m, f, obj, used) ==
  IF m.exc # NoExc THEN m
  ELSE IF m.bufSize < used
    THEN IF m.bufSize = 0 THEN [m EXCEPT !.exc = "hang"]
         ELSE writeObject([m EXCEPT !.bufSize = GrowTarget(@ * 2, used)],
                          f, obj)
  ELSE writeObject(m, f, obj)

writeObject(m, f, obj) ==
  IF m.exc # NoExc THEN m
  ELSE IF get_size(obj) > m.bufSize - writeOffset(m)
    THEN writeObjectRetry(writeFrame(m, f), f, obj, get_size(obj))
  ELSE [m EXCEPT !.buffer = @ \o SerBytes(obj)]

writeUpdate(m, f, key, value) == writeObject(writeObject(m, f, key), f, value)

writeErase(m, f, key) == writeUpdate(m, f, key, emptyValue)

(***************************************************************************)
(* Reading: readFrame, readObject and replay over the bytes of one file,   *)
(* pos being the position of the FILE*.                                    *)
(***************************************************************************)
\* buffer_[0 .. writeOffset_) after fread stored data at its start
Overlay(old, data) ==
  [i \in 1..Len(old) |-> IF i <= Len(data) THEN data[i] ELSE old[i]]

readFrame(m, file, pos) ==
  IF pos >= Len(file) THEN [rr |-> RR_Frame_EOF, m |-> m, pos |-> pos]
  ELSE
    LET control == file[pos + 1]
        extraLenBytes == (control \div 64) % 4
        isCRC32 == (control \div 32) % 2 = 1
        crcBytes == IF isCRC32 THEN 4 ELSE 2
        remainingHeaderSize == extraLenBytes + crcBytes
        headerBuf == Slice(file, pos + 1, remainingHeaderSize)
    IN IF Len(headerBuf) # remainingHeaderSize
         THEN [rr |-> RR_Frame_Underflow, m |-> m, pos |-> Len(file)]
       ELSE
         LET payloadSize == (control % 32)
                            + 32 * LittleEndian(SubSeq(headerBuf, 1, extraLenBytes))
             diskCRC == SubSeq(headerBuf, extraLenBytes + 1, remainingHeaderSize)
             data == Slice(file, pos + 1 + remainingHeaderSize, payloadSize)
             m1 == [m EXCEPT !.bufSize = IF @ < payloadSize THEN payloadSize ELSE @,
                             !.buffer = Overlay(@, data)]
             crc32 == computeCRC32(data)
             calcCRC == IF isCRC32
                          THEN ToLittleEndian(crc32[2], 2) \o ToLittleEndian(crc32[1], 2)
                          ELSE ToLittleEndian(computeCRC16(data), 2)
         IN IF Len(data) # payloadSize
              THEN [rr |-> RR_Frame_Underflow, m |-> m1, pos |-> Len(file)]
            ELSE IF calcCRC # diskCRC
              THEN [rr |-> RR_Frame_Corrupted, m |-> m1,
                    pos |-> pos + 1 + remainingHeaderSize + payloadSize]
            ELSE [rr |-> RR_Success,
                  m |-> [m1 EXCEPT !.buffer = data, !.readOffset = 0],
                  pos |-> pos + 1 + remainingHeaderSize + payloadSize]

\* if (readOffset_ >= writeOffset_) readFrame(f): [rr, m, pos]
readFrameIfDrained(m, file, pos) ==
  IF m.readOffset >= writeOffset(m)
    THEN readFrame(m, file, pos)
  ELSE [rr |-> RR_Success, m |-> m, pos |-> pos]

\* readObject once the buffer holds unread bytes or the frame read failed
readObjectFrom(rf, old) ==
     IF rf.rr # RR_Success
       THEN [rr |-> rf.rr, m |-> rf.m, pos |-> rf.pos, val |-> old]
     ELSE
       LET avail == writeOffset(rf.m) - rf.m.readOffset
           rd == SerRead(SubSeq(rf.m.buffer, rf.m.readOffset + 1,
                                writeOffset(rf.m)), old)
       IN IF rd.threw
            THEN [rr |-> RR_Threw, m |-> rf.m, pos |-> rf.pos, val |-> old]
          ELSE IF rd.used > avail
            THEN [rr |-> RR_Object_Corrupted, m |-> rf.m, pos |-> rf.pos,
                  val |-> old]
          ELSE [rr |-> RR_Success,
                m |-> [rf.m EXCEPT !.readOffset = @ + rd.used],
                pos |-> rf.pos, val |-> rd.val]

\* readObject into a value that was old: [rr, m, pos, val]
readObject(m, file, pos, old) ==
  readObjectFrom(readFrameIfDrained(m, file, pos), old)

\* the while (true) loop of replay: [ok, m]
RECURSIVE ReplayLoop(_, _, _)
\* a replay that leaves the entry of a key it found as it is, as
\* objects_.emplace(key, value) would
ReplayValueEmplace(key, found, rv, file) ==
  IF rv.rr # RR_Success THEN [ok |-> FALSE, m |-> rv.m]
  ELSE ReplayLoop(
         [rv.m EXCEPT !.objects =
            IF found THEN @
            ELSE IF ~is_empty(rv.val) THEN MapSet(@, key, rv.val)
                 ELSE @],
         file, rv.pos)

\* the value was read (rv) into the entry of key, which was found or not
ReplayValue(key, found, rv, file) ==
  IF rv.rr # RR_Success THEN [ok |-> FALSE, m |-> rv.m]
  ELSE ReplayLoop(
         [rv.m EXCEPT !.objects =
            IF found
              THEN IF is_empty(rv.val) THEN MapErase(@, key)
                   ELSE MapSet(@, key, rv.val)
            ELSE IF ~is_empty(rv.val) THEN MapSet(@, key, rv.val)
                 ELSE @],
         file, rv.pos)

\* the key was read (rk): objects_.find(key), readObject(it->second) or
\* readObject(value)
ReplayKey(rk, file) ==
  IF rk.rr # RR_Success THEN [ok |-> FALSE, m |-> rk.m]
  ELSE ReplayValue(rk.val, rk.val \in DOMAIN rk.m.objects,
                   readObject(rk.m, file, rk.pos,
                              IF rk.val \in DOMAIN rk.m.objects
                                THEN rk.m.objects[rk.val] ELSE <<>>),
                   file)

\* a replay that takes a frame cut short for the end of the file
ReplayFrameLenient(rf, file) ==
  IF rf.rr \in {RR_Frame_EOF, RR_Frame_Underflow} THEN [ok |-> TRUE, m |-> rf.m]
  ELSE IF rf.rr # RR_Success THEN [ok |-> FALSE, m |-> rf.m]
  ELSE ReplayKey(readObject(rf.m, file, rf.pos, <<>>), file)

\* the frame was read (rf), if the buffer was drained
ReplayFrame(rf, file) ==
  IF rf.rr = RR_Frame_EOF THEN [ok |-> TRUE, m |-> rf.m]
  ELSE IF rf.rr # RR_Success THEN [ok |-> FALSE, m |-> rf.m]
  ELSE ReplayKey(readObject(rf.m, file, rf.pos, <<>>), file)

ReplayLoop(m, file, pos) ==
  ReplayFrame(readFrameIfDrained(m, file, pos), file)

replay(m, file) ==
  ReplayLoop([m EXCEPT !.buffer = <<>>, !.readOffset = 0], file, 0)

(***************************************************************************)
(* Snapshots: writeSnapshot, deleteOldSnapshotsAndEvents, save.            *)
(*   rfail    the rename of the temporary snapshot fails                   *)
(*   rmfail   the files whose removal fails (and is swallowed)             *)
(***************************************************************************)
\* operator< of std::string: the order std::map iterates in
RECURSIVE Less(_, _)
Less(a, b) ==
  IF b = <<>> THEN FALSE
  ELSE IF a = <<>> THEN TRUE
  ELSE IF a[1] # b[1] THEN a[1] < b[1]
  ELSE Less(Tail(a), Tail(b))

FirstKey(ks) == CHOOSE k \in ks : \A x \in ks \ {k} : Less(k, x)

\* for (auto& [k, v] : objects_) writeUpdate(sf, k, v), over the keys ks left
RECURSIVE WriteAll(_, _, _)
WriteAll(m, sf, ks) ==
  IF ks = {} \/ m.exc # NoExc THEN m
  ELSE LET k == FirstKey(ks)
       IN WriteAll(writeUpdate(m, sf, k, m.objects[k]), sf, ks \ {k})

\* fopen(tempPath, "wb"); writeOffset_ = 0; the records; flush(sf, true)
WriteTemp(m, snapshotTime) ==
  LET sf == TempName(snapshotTime)
      m0 == [m EXCEPT !.files = [x \in DOMAIN @ \cup {sf} |->
                                   IF x = sf THEN <<>> ELSE @[x]],
                      !.buffer = <<>>]
  IN flush(WriteAll(m0, sf, DOMAIN m0.objects), sf)

\* std::filesystem::rename(tempPath, snapshotPath)
RenameTemp(m, snapshotTime) ==
  [m EXCEPT !.files = [x \in (DOMAIN @ \ {TempName(snapshotTime)})
                               \cup {SnapshotName(snapshotTime)} |->
                         IF x = SnapshotName(snapshotTime)
                           THEN @[TempName(snapshotTime)] ELSE @[x]]]

\* the temporary file was written (m): it is renamed, or the catch block
\* removes it and the exception goes on
PublishTemp(m, snapshotTime) ==
  IF m.exc # NoExc
    THEN [m EXCEPT !.files = RemoveFile(@, TempName(snapshotTime))]
  ELSE IF m.rfail
    THEN [m EXCEPT !.files = RemoveFile(@, TempName(snapshotTime)),
                   !.exc = "failed to rename snapshot",
                   !.rfail = FALSE]
  ELSE RenameTemp(m, snapshotTime)

writeSnapshot(m, snapshotTime) ==
  IF m.exc # NoExc THEN m
  ELSE PublishTemp(WriteTemp(m, snapshotTime), snapshotTime)

\* the files deleteOldSnapshotsAndEvents collects in toDelete
\* a cleanup that removes the old event files and keeps every snapshot
ToDeleteEvents(files, keepSnapshotTime) ==
  {f \in DOMAIN files : f[1] = "events" /\ f[2] < keepSnapshotTime}

\* a cleanup that also takes the files of the generation it was told to keep
ToDeleteThrough(files, keepSnapshotTime) ==
  {f \in DOMAIN files : f[1] \in {"events", "snapshot"} /\ f[2] <= keepSnapshotTime}

ToDelete(files, keepSnapshotTime) ==
  {f \in DOMAIN files : f[1] \in {"events", "snapshot"} /\ f[2] < keepSnapshotTime}

deleteOldSnapshotsAndEvents(m, keepSnapshotTime) ==
  IF m.exc # NoExc THEN m
  ELSE [m EXCEPT !.files =
          [x \in DOMAIN @ \ (ToDelete(@, keepSnapshotTime) \ m.rmfail) |-> @[x]],
          !.rmfail = {}]

\* save() up to the fork or the snapshot: the loaded_ test, fclose(events_)
SaveBegin(m) ==
  IF m.exc # NoExc THEN m
  ELSE IF ~m.loaded
    THEN [m EXCEPT !.exc = "cannot save() without calling load() first"]
  ELSE [m EXCEPT !.events = NoFile]

\* a save that opens the next event file under the old generation
SaveAdvanceStale(m, snapshotTime) ==
  IF m.exc # NoExc THEN m ELSE openEventsFile(m)

\* time_ = snapshotTime; openEventsFile()
SaveAdvance(m, snapshotTime) ==
  IF m.exc # NoExc THEN m
  ELSE openEventsFile([m EXCEPT !.time = snapshotTime])

asyncClear == 0
syncSave == 1
forkSave == 2

\* save(mode) on the calling thread: [m, task, child]. task is the
\* keepSnapshotTime handed to a detached thread (or -1), child the forked
\* copy of the store with its snapshotTime (or <<>>).
\* the snapshot is written and the next event file open (m): the cleanup
SaveCleanup(m, mode, snapshotTime) ==
  IF mode = syncSave
    THEN [m |-> deleteOldSnapshotsAndEvents(m, snapshotTime),
          task |-> -1, child |-> <<>>]
  ELSE [m |-> m,
        task |-> IF m.exc = NoExc THEN snapshotTime ELSE -1,
        child |-> <<>>]

\* save() after the event file is closed (m)
SaveClosed(m, mode, snapshotTime) ==
  IF m.exc # NoExc THEN [m |-> m, task |-> -1, child |-> <<>>]
  ELSE IF mode = forkSave
    THEN [m |-> SaveAdvance(m, snapshotTime), task |-> -1,
          child |-> <<[m EXCEPT !.files = <<>>], snapshotTime>>]
  ELSE SaveCleanup(SaveAdvance(writeSnapshot(m, snapshotTime), snapshotTime),
                   mode, snapshotTime)

save(m, mode) == SaveClosed(SaveBegin(m), mode, m.time + 1)

(***************************************************************************)
(* load().                                                                 *)
(***************************************************************************)
Generations(files, kind) == {f[2] : f \in {x \in DOMAIN files : x[1] = kind}}

SetMax(S) == CHOOSE x \in S : \A y \in S : y <= x
SetMin(S) == CHOOSE x \in S : \A y \in S : x <= y

\* the loop over the sorted eventTimes: [m, corrupted]
RECURSIVE LoadEvents(_, _, _, _)
\* a loop that does not compare eventTime with expectedTime
LoadEventsNextNoGap(r, eventTimes, eventTime, expectedTime, corrupted) ==
  LoadEvents(
    IF r.ok THEN [r.m EXCEPT !.time = eventTime]
    ELSE [r.m EXCEPT !.files = RemoveFile(@, EventsName(eventTime))],
    eventTimes \ {eventTime},
    eventTime + 1,
    corrupted \/ ~r.ok)

\* a loop that leaves an event file that failed to replay where it is
LoadEventsNextKeep(r, eventTimes, eventTime, expectedTime, corrupted) ==
  LoadEvents(
    IF r.ok THEN [r.m EXCEPT !.time = eventTime] ELSE r.m,
    eventTimes \ {eventTime},
    eventTime + 1,
    corrupted \/ eventTime # expectedTime \/ ~r.ok)

\* one file of the loop was replayed (r)
LoadEventsNext(r, eventTimes, eventTime, expectedTime, corrupted) ==
  LoadEvents(
    IF r.ok THEN [r.m EXCEPT !.time = eventTime]
    ELSE [r.m EXCEPT !.files = RemoveFile(@, EventsName(eventTime))],
    eventTimes \ {eventTime},
    eventTime + 1,
    corrupted \/ eventTime # expectedTime \/ ~r.ok)

LoadEvents(m, eventTimes, expectedTime, corrupted) ==
  IF eventTimes = {} THEN [m |-> m, corrupted |-> corrupted]
  ELSE LoadEventsNext(replay(m, m.files[EventsName(SetMin(eventTimes))]),
                      eventTimes, SetMin(eventTimes), expectedTime, corrupted)

\* load(): [m, ret], ret being the value returned when nothing is raised
\* the event files were replayed (le): loaded_ = true, the save of a
\* corrupted log, the event file of time_ opened
LoadEnd(le) ==
  [m |-> openEventsFile(closeEventsFile(
           IF le.corrupted THEN save([le.m EXCEPT !.loaded = TRUE], syncSave).m
           ELSE [le.m EXCEPT !.loaded = TRUE])),
   ret |-> ~le.corrupted]

\* a load that takes what a failed snapshot replay left and goes on
LoadSnapshotLenient(rs) ==
  LoadEnd(LoadEvents(
    rs.m, {g \in Generations(rs.m.files, "events") : g >= rs.m.time},
    rs.m.time, ~rs.ok))

\* the snapshot of time_ was replayed (rs), if there was one
LoadSnapshot(rs) ==
  IF ~rs.ok
    THEN [m |-> [rs.m EXCEPT !.exc = "corrupted snapshot"], ret |-> FALSE]
  ELSE LoadEnd(LoadEvents(
         rs.m, {g \in Generations(rs.m.files, "events") : g >= rs.m.time},
         rs.m.time, FALSE))

\* the directory was scanned: snapshots are the generations that have one
LoadScanned(m, snapshots) ==
  LoadSnapshot(IF snapshots # {}
                 THEN replay(m, m.files[SnapshotName(m.time)])
               ELSE [ok |-> TRUE, m |-> m])

load(m) ==
  LoadScanned([m EXCEPT !.objects = EmptyMap,
                        !.time = IF Generations(m.files, "snapshot") # {}
                                   THEN SetMax(Generations(m.files, "snapshot"))
                                 ELSE 0],
              Generations(m.files, "snapshot"))

(***************************************************************************)
(* The public operations, as functions of the record m.                    *)
(***************************************************************************)
\* objects_[key] = value, reached when writeUpdate raised nothing
Put(m, key, value) ==
  IF m.exc # NoExc THEN m ELSE [m EXCEPT !.objects = MapSet(@, key, value)]

\* an update that assigns objects[key] first and logs the record after
updateApplyFirst(m, key, value) ==
  writeUpdate([m EXCEPT !.objects = MapSet(@, key, value)], m.events, key, value)

update(m, key, value) ==
  Put(writeUpdate(m, m.events, key, value), key, value)

\* an erase that removes the entry and logs nothing
eraseUnlogged(m, key) ==
  [m EXCEPT !.objects = MapErase(@, key)]

\* objects_.erase(it), reached when writeErase raised nothing
Remove(m, key) ==
  IF m.exc # NoExc THEN m ELSE [m EXCEPT !.objects = MapErase(@, key)]

\* an erase that does not look the key up and logs the record always
eraseAlways(m, key) == Remove(writeErase(m, m.events, key), key)

erase(m, key) ==
  IF key \in DOMAIN m.objects
    THEN Remove(writeErase(m, m.events, key), key)
  ELSE m

persist(m, key) == writeUpdate(m, m.events, key, m.objects[key])

clear(m) == save([m EXCEPT !.objects = EmptyMap], syncSave).m

\* bufferSize_ = size; buffer_.resize(size), after the flush
Resize(m, size) ==
  IF m.exc # NoExc THEN m ELSE [m EXCEPT !.bufSize = size]

\* a resize that does not write the pending frame first
setBufferSizeNoFlush(m, size) ==
  IF size = 0 \/ size > MaxBufferSize
    THEN [m EXCEPT !.exc = "invalid buffer size"]
  ELSE [m EXCEPT !.bufSize = size,
                 !.buffer = SubSeq(@, 1, Min(size, Len(@)))]

setBufferSize(m, size) ==
  IF size = 0 \/ size > MaxBufferSize
    THEN [m EXCEPT !.exc = "invalid buffer size"]
  ELSE IF writeOffset(m) > 0 /\ m.events = NoFile
    THEN [m EXCEPT !.exc = "event file handle is null"]
  ELSE Resize(writeFrame(m, m.events), size)

(***************************************************************************)
(* State.                                                                  *)
(*   files .. loaded   the fields of m, for the one store of the directory *)
(*   alive    a Store object exists (between constructor and destruction)  *)
(*   last     the step taken last: the call, how it ended, its mode        *)
(*   before   the directory as it was when that step began                 *)
(*   tasks    the keepSnapshotTime of each detached cleanup thread         *)
(*   child    the forked child: its phase, snapshotTime and copy of m      *)
(*   faults   the faults injected so far                                   *)
(*   dirty    keys changed in place through operator[] and not yet logged  *)
(*   calls    the changing calls made so far, sessions the stores opened   *)
(*   ps       a store of a partial-aware value type and the threads that   *)
(*            serialize values of that type (described further down)      *)
(***************************************************************************)
VARIABLES files, alive, objects, events, buffer, bufSize, readOffset, time,
          loaded, last, before, tasks, child, faults, dirty, calls, sessions,
          ps

vars == <<files, alive, objects, events, buffer, bufSize, readOffset, time,
          loaded, last, before, tasks, child, faults, dirty, calls, sessions,
          ps>>

\* the variables of the store of strings
svars == <<files, alive, objects, events, buffer, bufSize, readOffset, time,
           loaded, last, before, tasks, child, faults, dirty, calls, sessions>>

mem == <<objects, events, buffer, bufSize, readOffset, time, loaded>>

NoChild == [phase |-> "none", snapshotTime |-> 0, objects |-> EmptyMap,
            bufSize |-> 0]

\* the bytes a failing frame write leaves behind: none, the control byte
\* alone, or all but the last byte
Cuts == {0, 1, -1}

NoFault == [kind |-> "none", wfail |-> 0, cut |-> 0, rfail |-> FALSE,
            rmfail |-> {}]

\* a frame write that fails: the call raises ("throw") or the process is
\* killed in it ("kill")
WriteFaults ==
  IF faults < MaxFaults
    THEN [kind : {"throw", "kill"}, wfail : {1}, cut : Cuts,
          rfail : {FALSE}, rmfail : {{}}]
  ELSE {}

\* a frame write that fails and raises
ThrowFaults == {flt \in WriteFaults : flt.kind = "throw"}

RenameFaults ==
  IF faults < MaxFaults
    THEN {[kind |-> "throw", wfail |-> 0, cut |-> 0, rfail |-> TRUE,
           rmfail |-> {}]}
  ELSE {}

RemoveFaults ==
  IF faults < MaxFaults
    THEN {[kind |-> "swallow", wfail |-> 0, cut |-> 0, rfail |-> FALSE,
           rmfail |-> {f}] : f \in ToDelete(files, time + 1)}
  ELSE {}

Cur(flt) ==
  [files |-> files, objects |-> objects, events |-> events,
   buffer |-> buffer, bufSize |-> bufSize, readOffset |-> readOffset,
   time |-> time, loaded |-> loaded, exc |-> NoExc,
   wfail |-> flt.wfail, cut |-> flt.cut, rfail |-> flt.rfail,
   rmfail |-> flt.rmfail]

\* a store as the constructor leaves it before setDirectory
Fresh(bufferSize, flt) ==
  [files |-> files, objects |-> EmptyMap, events |-> NoFile,
   buffer |-> <<>>, bufSize |-> bufferSize, readOffset |-> 0,
   time |-> 0, loaded |-> FALSE, exc |-> NoExc,
   wfail |-> flt.wfail, cut |-> flt.cut, rfail |-> flt.rfail,
   rmfail |-> flt.rmfail]

\* an injected fault counts only in a call that ran into it
Hit(flt, m) ==
  \/ flt.kind = "none"
  \/ flt.kind \in {"throw", "kill"} /\ m.exc \in {"file write error",
                                                  "failed to rename snapshot"}
  \/ flt.kind = "swallow" /\ flt.rmfail \subseteq DOMAIN m.files
                          /\ m.rmfail = {}

Died(flt, m) ==
  m.exc \in {"crash", "hang"} \/ (flt.kind = "kill" /\ m.exc # NoExc)

Result(flt, m) ==
  IF Died(flt, m) THEN "crash" ELSE IF m.exc # NoExc THEN "throw" ELSE "ok"

\* the process is gone: its memory does not matter any more
Forget ==
  /\ objects' = EmptyMap /\ events' = NoFile /\ buffer' = <<>>
  /\ bufSize' = 0 /\ readOffset' = 0 /\ time' = 0 /\ loaded' = FALSE
  /\ dirty' = {} /\ tasks' = {}

Keep(m) ==
  /\ objects' = m.objects /\ events' = m.events /\ buffer' = m.buffer
  /\ bufSize' = m.bufSize /\ readOffset' = m.readOffset /\ time' = m.time
  /\ loaded' = m.loaded

\* the end of a public call that left the store in m
Return(op, mode, flt, m, ret, newDirty, newTasks) ==
  /\ Hit(flt, m)
  /\ files' = m.files
  /\ before' = files /\ UNCHANGED ps
  /\ faults' = IF flt.kind = "none" THEN faults ELSE faults + 1
  /\ last' = [op |-> op, mode |-> mode,
              res |-> IF Result(flt, m) = "ok" /\ ~ret THEN "false"
                      ELSE Result(flt, m)]
  /\ IF Died(flt, m) THEN alive' = FALSE /\ Forget
     ELSE /\ alive' = TRUE
          /\ Keep(m)
          /\ dirty' = IF m.exc = NoExc THEN newDirty ELSE dirty
          /\ tasks' = newTasks

\* one more call that changes the map or takes a snapshot
Call == calls < MaxCalls /\ calls' = calls + 1 /\ UNCHANGED sessions

Init ==
  /\ files = EmptyMap
  /\ alive = FALSE
  /\ objects = EmptyMap /\ events = NoFile /\ buffer = <<>>
  /\ bufSize = 0 /\ readOffset = 0 /\ time = 0 /\ loaded = FALSE
  /\ last = [op |-> "init", mode |-> -1, res |-> "ok"]
  /\ before = EmptyMap /\ ps = <<>>
  /\ tasks = {} /\ child = NoChild /\ faults = 0 /\ dirty = {}
  /\ calls = 0 /\ sessions = 0

(***************************************************************************)
(* Actions: one per public call, plus the background work and the faults.  *)
(***************************************************************************)
\* the end of the constructor, whose load() left the store in m and
\* returned ret: an exception leaves no object behind
Constructed(flt, m, ret) ==
  /\ Hit(flt, m)
  /\ files' = m.files
  /\ before' = files /\ UNCHANGED ps
  /\ faults' = IF flt.kind = "none" THEN faults ELSE faults + 1
  /\ last' = [op |-> "open", mode |-> -1,
              res |-> IF m.exc # NoExc THEN Result(flt, m)
                      ELSE IF ret THEN "ok" ELSE "false"]
  /\ IF m.exc # NoExc THEN alive' = FALSE /\ Forget
     ELSE alive' = TRUE /\ Keep(m) /\ dirty' = {} /\ tasks' = tasks

\* Store(dir, flags, bufferSize): setDirectory(dir), load()
Open(bufferSize, flt) ==
  /\ ~alive /\ sessions < MaxSessions
  /\ sessions' = sessions + 1 /\ UNCHANGED calls
  /\ Constructed(flt, load(Fresh(bufferSize, flt)).m,
                 load(Fresh(bufferSize, flt)).ret)
  /\ UNCHANGED child

Update(key, value, flt) ==
  /\ alive
  /\ Call
  /\ Return("update", -1, flt, update(Cur(flt), key, value), TRUE,
            dirty \ {key}, tasks)
  /\ UNCHANGED child

Erase(key, flt) ==
  /\ alive
  /\ Call
  /\ Return("erase", -1, flt, erase(Cur(flt), key), TRUE,
            dirty \ {key}, tasks)
  /\ UNCHANGED child

\* operator[](key) = value: the map is changed in place, nothing is logged
Assign(key, value) ==
  /\ alive
  /\ Call
  /\ objects' = MapSet(objects, key, value)
  /\ dirty' = dirty \cup {key}
  /\ before' = files /\ UNCHANGED ps
  /\ last' = [op |-> "assign", mode |-> -1, res |-> "ok"]
  /\ UNCHANGED <<files, alive, events, buffer, bufSize, readOffset, time,
                 loaded, tasks, child, faults>>

Persist(key, flt) ==
  /\ alive
  /\ Call
  /\ key \in DOMAIN objects
  /\ Return("persist", -1, flt, persist(Cur(flt), key), TRUE,
            dirty \ {key}, tasks)
  /\ UNCHANGED child

\* flush(); with an empty buffer it writes nothing and changes nothing
Flush(flt) ==
  /\ alive /\ buffer # <<>>
  /\ UNCHANGED <<calls, sessions>>
  /\ Return("flush", -1, flt, flush(Cur(flt), events), TRUE, dirty, tasks)
  /\ UNCHANGED child

\* the end of save(mode), r being what it left: [m, task, child]
Saved(mode, flt, r) ==
  /\ Return("save", mode, flt, r.m, TRUE, {},
            IF r.task >= 0 THEN tasks \cup {r.task} ELSE tasks)
  /\ child' = IF r.child # <<>> /\ ~Died(flt, r.m)
                THEN [phase |-> "snapshot", snapshotTime |-> r.child[2],
                      objects |-> r.child[1].objects,
                      bufSize |-> r.child[1].bufSize]
              ELSE child

Save(mode, flt) ==
  /\ alive
  /\ Call
  /\ mode = forkSave => child.phase \in {"none", "done"}
  /\ Saved(mode, flt, save(Cur(flt), mode))

Clear(flt) ==
  /\ alive
  /\ Call
  /\ Return("clear", syncSave, flt, clear(Cur(flt)), TRUE, {}, tasks)
  /\ UNCHANGED child

\* a destructor that emits the buffer as a last frame before it closes
DestroyFlushing ==
  /\ alive
  /\ UNCHANGED <<calls, sessions>>
  /\ alive' = FALSE
  /\ events' = NoFile /\ buffer' = <<>> /\ readOffset' = 0 /\ bufSize' = 0
  /\ time' = 0 /\ loaded' = FALSE
  /\ before' = files /\ UNCHANGED ps
  /\ last' = [op |-> "destroy", mode |-> -1,
              res |-> IF buffer = <<>> /\ dirty = {} THEN "ok" ELSE "lost"]
  /\ files' = writeFrame(Cur(NoFault), events).files
  /\ UNCHANGED <<objects, tasks, child, faults, dirty>>

\* ~Store(): fclose(events_), nothing is flushed. The map stays in objects
\* as the map the session ended with.
Destroy ==
  /\ alive
  /\ UNCHANGED <<calls, sessions>>
  /\ alive' = FALSE
  /\ events' = NoFile /\ buffer' = <<>> /\ readOffset' = 0 /\ bufSize' = 0
  /\ time' = 0 /\ loaded' = FALSE
  /\ before' = files /\ UNCHANGED ps
  /\ last' = [op |-> "destroy", mode |-> -1,
              res |-> IF buffer = <<>> /\ dirty = {} THEN "ok" ELSE "lost"]
  /\ UNCHANGED <<files, objects, tasks, child, faults, dirty>>

\* the directory when the process is killed inside save(syncSave), at
\* point p; D are the obsolete files already removed
SaveStageFiles(p, D) ==
  LET m1 == SaveBegin(Cur(NoFault))
      snapshotTime == m1.time + 1
      w == WriteTemp(m1, snapshotTime)
      r == RenameTemp(w, snapshotTime)
      a == SaveAdvance(r, snapshotTime)
  IN CASE p = "closed" -> m1.files
       [] p = "tmpPartial" ->
            [w.files EXCEPT ![TempName(snapshotTime)] = SubSeq(@, 1, Len(@) - 1)]
       [] p = "tmpWritten" -> w.files
       [] p = "renamed" -> r.files
       [] p = "opened" -> a.files
       [] p = "deleting" -> [x \in DOMAIN a.files \ D |-> a.files[x]]

SavePoints ==
  {"closed", "tmpPartial", "tmpWritten", "renamed", "opened", "deleting"}

SaveCrash(p, D) ==
  /\ alive /\ loaded /\ faults < MaxFaults
  /\ Call
  /\ p = "tmpPartial" => objects # EmptyMap
  /\ IF p = "deleting" THEN D # {} /\ D \subseteq ToDelete(files, time + 1)
     ELSE D = {}
  /\ files' = SaveStageFiles(p, D)
  /\ alive' = FALSE
  /\ Forget
  /\ faults' = faults + 1
  /\ before' = files /\ UNCHANGED ps
  /\ last' = [op |-> "save", mode |-> syncSave, res |-> "crash"]
  /\ UNCHANGED child

\* the detached thread of save(asyncClear)
TaskRun(keepSnapshotTime) ==
  /\ keepSnapshotTime \in tasks
  /\ files' = [x \in DOMAIN files \ ToDelete(files, keepSnapshotTime) |-> files[x]]
  /\ tasks' = tasks \ {keepSnapshotTime}
  /\ before' = files /\ UNCHANGED ps
  /\ last' = [op |-> "task", mode |-> asyncClear, res |-> "ok"]
  /\ UNCHANGED <<alive, mem, child, faults, dirty, calls, sessions>>

\* a child that starts from an empty map
ChildStoreCleared ==
  [files |-> files, objects |-> EmptyMap, events |-> NoFile,
   buffer |-> <<>>, bufSize |-> child.bufSize, readOffset |-> 0,
   time |-> child.snapshotTime - 1, loaded |-> TRUE, exc |-> NoExc,
   wfail |-> 0, cut |-> 0, rfail |-> FALSE, rmfail |-> {}]

ChildStore ==
  [files |-> files, objects |-> child.objects, events |-> NoFile,
   buffer |-> <<>>, bufSize |-> child.bufSize, readOffset |-> 0,
   time |-> child.snapshotTime - 1, loaded |-> TRUE, exc |-> NoExc,
   wfail |-> 0, cut |-> 0, rfail |-> FALSE, rmfail |-> {}]

\* the child of save(forkSave): writeSnapshot(snapshotTime)
ChildSnapshot ==
  /\ child.phase = "snapshot"
  /\ files' = writeSnapshot(ChildStore, child.snapshotTime).files
  /\ child' = [child EXCEPT !.phase = "cleanup"]
  /\ before' = files /\ UNCHANGED ps
  /\ last' = [op |-> "child", mode |-> forkSave, res |-> "ok"]
  /\ UNCHANGED <<alive, mem, tasks, faults, dirty, calls, sessions>>

\* the child: deleteOldSnapshotsAndEvents(snapshotTime); _exit(0)
ChildCleanup ==
  /\ child.phase = "cleanup"
  /\ files' = deleteOldSnapshotsAndEvents(ChildStore, child.snapshotTime).files
  /\ child' = [child EXCEPT !.phase = "done"]
  /\ before' = files /\ UNCHANGED ps
  /\ last' = [op |-> "child", mode |-> forkSave, res |-> "ok"]
  /\ UNCHANGED <<alive, mem, tasks, faults, dirty, calls, sessions>>

\* The store with its three save modes and their background work.
Next ==
  \/ \E b \in BufSizes : Open(b, NoFault)
  \/ \E k \in Keys, v \in Vals : Update(k, v, NoFault)
  \/ \E k \in Keys : Erase(k, NoFault)
  \/ Flush(NoFault)
  \/ \E mode \in {asyncClear, syncSave, forkSave} : Save(mode, NoFault)
  \/ Destroy
  \/ \E t \in tasks : TaskRun(t)
  \/ ChildSnapshot
  \/ ChildCleanup

Spec == Init /\ [][Next]_vars

\* The store used with synchronous saves only, the map also changed in
\* place and persisted key by key.
NextSync ==
  \/ \E b \in BufSizes : Open(b, NoFault)
  \/ \E k \in Keys, v \in Vals : Update(k, v, NoFault)
  \/ \E k \in Keys : Erase(k, NoFault)
  \/ \E k \in Keys, v \in Vals : Assign(k, v)
  \/ \E k \in Keys : Persist(k, NoFault)
  \/ Flush(NoFault)
  \/ Save(syncSave, NoFault)
  \/ Clear(NoFault)
  \/ Destroy

SpecSync == Init /\ [][NextSync]_vars

\* The store under environment faults: writes that fail or are torn,
\* renames and removals that fail, the process killed inside a call.
NextFault ==
  \/ \E b \in BufSizes : Open(b, NoFault)
  \/ \E k \in Keys, v \in Vals, flt \in {NoFault} \cup WriteFaults :
       Update(k, v, flt)
  \/ \E k \in Keys, flt \in {NoFault} \cup WriteFaults : Erase(k, flt)
  \/ \E flt \in {NoFault} \cup WriteFaults : Flush(flt)
  \/ \E flt \in {NoFault} \cup ThrowFaults \cup RenameFaults \cup RemoveFaults :
       Save(syncSave, flt)
  \/ \E p \in SavePoints, D \in SUBSET DOMAIN files : SaveCrash(p, D)
  \/ Destroy

SpecFault == Init /\ [][NextFault]_vars

(***************************************************************************)
(* The on-disk format and the recovery it defines, stated on the bytes of  *)
(* the directory alone. The properties compare the store with these.       *)
(***************************************************************************)
\* the header of the frame that starts at file[pos + 1]: the control byte,
\* the extra length bytes, the checksum
RefHeaderLen(file, pos) ==
  1 + ((file[pos + 1] \div 64) % 4)
    + (IF (file[pos + 1] \div 32) % 2 = 1 THEN 4 ELSE 2)

RefPayloadLen(file, pos) ==
  (file[pos + 1] % 32)
  + 32 * LittleEndian(SubSeq(file, pos + 2, pos + 1 + ((file[pos + 1] \div 64) % 4)))

RefPayload(file, pos) ==
  SubSeq(file, pos + RefHeaderLen(file, pos) + 1,
         pos + RefHeaderLen(file, pos) + RefPayloadLen(file, pos))

\* a whole frame with a matching checksum starts at file[pos + 1]
RefFrameAt(file, pos) ==
  /\ pos < Len(file)
  /\ pos + RefHeaderLen(file, pos) <= Len(file)
  /\ pos + RefHeaderLen(file, pos) + RefPayloadLen(file, pos) <= Len(file)
  /\ SubSeq(file, pos + 1,
            pos + RefHeaderLen(file, pos) + RefPayloadLen(file, pos))
       = FrameBytes(RefPayload(file, pos), (file[pos + 1] \div 32) % 2 = 1)

\* the payloads of the whole frames the file starts with, from pos on
RECURSIVE RefFrames(_, _)
RefFrames(file, pos) ==
  IF RefFrameAt(file, pos)
    THEN <<RefPayload(file, pos)>>
         \o RefFrames(file, pos + RefHeaderLen(file, pos) + RefPayloadLen(file, pos))
  ELSE <<>>

\* where these frames end
RECURSIVE RefFramesEnd(_, _)
RefFramesEnd(file, pos) ==
  IF RefFrameAt(file, pos)
    THEN RefFramesEnd(file, pos + RefHeaderLen(file, pos) + RefPayloadLen(file, pos))
  ELSE pos

RECURSIVE Concat(_)
Concat(seqs) == IF seqs = <<>> THEN <<>> ELSE seqs[1] \o Concat(Tail(seqs))

\* the length of the record (key, value) a byte stream starts with, each
\* of the two a length byte and that many bytes; 0 if there is no whole one
RefRecordLen(s) ==
  IF s = <<>> \/ s[1] >= 128 \/ Len(s) < s[1] + 2 THEN 0
  ELSE IF s[s[1] + 2] >= 128 \/ Len(s) < s[1] + 2 + s[s[1] + 2] THEN 0
  ELSE s[1] + 2 + s[s[1] + 2]

\* the whole records a byte stream starts with, as pairs <<key, value>>
RECURSIVE RefRecords(_)
RefRecords(s) ==
  IF RefRecordLen(s) = 0 THEN <<>>
  ELSE <<<<SubSeq(s, 2, s[1] + 1), SubSeq(s, s[1] + 3, RefRecordLen(s))>>>>
       \o RefRecords(SubSeq(s, RefRecordLen(s) + 1, Len(s)))

\* the stream is a whole number of records
RECURSIVE RefWhole(_)
RefWhole(s) ==
  \/ s = <<>>
  \/ RefRecordLen(s) > 0 /\ RefWhole(SubSeq(s, RefRecordLen(s) + 1, Len(s)))

\* a record (k, v) sets k to v when v is not empty and removes k when it is
RECURSIVE RefApply(_, _)
RefApply(map, recs) ==
  IF recs = <<>> THEN map
  ELSE RefApply(IF recs[1][2] = <<>> THEN MapErase(map, recs[1][1])
                ELSE MapSet(map, recs[1][1], recs[1][2]),
                Tail(recs))

\* the file replays cleanly: whole frames only, holding whole records
RefClean(file) ==
  /\ RefFramesEnd(file, 0) = Len(file)
  /\ RefWhole(Concat(RefFrames(file, 0)))

RefGens(dir, kind) == {f[2] : f \in {x \in DOMAIN dir : x[1] = kind}}

\* the generation of the newest snapshot, 0 without one
RefBase(dir) ==
  IF RefGens(dir, "snapshot") = {} THEN 0
  ELSE CHOOSE g \in RefGens(dir, "snapshot") :
         \A h \in RefGens(dir, "snapshot") : h <= g

\* the event files of generations g, g + 1, ... that exist, applied to map
RECURSIVE RefEvents(_, _, _)
RefEvents(dir, g, map) ==
  IF \A h \in RefGens(dir, "events") : h < g THEN map
  ELSE RefEvents(dir, g + 1,
                 IF <<"events", g>> \in DOMAIN dir
                   THEN RefApply(map, RefRecords(Concat(RefFrames(dir[<<"events", g>>], 0))))
                 ELSE map)

\* the map the directory stands for
RefLoad(dir) ==
  RefEvents(dir, RefBase(dir),
            IF RefGens(dir, "snapshot") = {} THEN EmptyMap
            ELSE RefApply(EmptyMap,
                          RefRecords(Concat(RefFrames(
                            dir[<<"snapshot", RefBase(dir)>>], 0)))))

\* the files load() reads all replay cleanly
RefCleanDir(dir) ==
  \A f \in DOMAIN dir :
    (f = <<"snapshot", RefBase(dir)>> \/ (f[1] = "events" /\ f[2] >= RefBase(dir)))
      => RefClean(dir[f])

(***************************************************************************)
(* C1: after load() on a directory whose files all replay cleanly, the map *)
(* is the records of the newest snapshot (none: the empty map) followed by *)
(* the records of every event file of that generation or a later one,      *)
(* files in ascending generation and records in stream order, a record     *)
(* (k, v) setting k to v when v is not empty and removing k when it is.    *)
(***************************************************************************)
C1_LoadIsFold ==
  [][(~alive /\ alive' /\ RefCleanDir(files)) => objects' = RefLoad(files)]_vars

\* C1 witness: a store just opened on two event files that were both
\* replayed, the later one overriding a key the earlier one set
C1_Witness ==
  /\ alive /\ last.op = "open" /\ last.res = "ok"
  /\ \E g \in RefGens(files, "events"), k \in Keys :
       /\ g >= RefBase(files) /\ <<"events", g + 1>> \in DOMAIN files
       /\ RefApply(EmptyMap, RefRecords(Concat(RefFrames(files[<<"events", g>>], 0))))
            = (k :> <<7>>)
       /\ \E i \in 1..Len(RefRecords(Concat(RefFrames(files[<<"events", g + 1>>], 0)))) :
            RefRecords(Concat(RefFrames(files[<<"events", g + 1>>], 0)))[i] = <<k, <<>>>>
       /\ k \notin DOMAIN objects

\* a map without its empty values
RefNonEmpty(map) == [k \in {x \in DOMAIN map : map[x] # <<>>} |-> map[k]]

RefTorn(file) ==
  /\ RefFramesEnd(file, 0) < Len(file)
  /\ \/ RefFramesEnd(file, 0) + RefHeaderLen(file, RefFramesEnd(file, 0)) > Len(file)
     \/ RefFramesEnd(file, 0) + RefHeaderLen(file, RefFramesEnd(file, 0))
          + RefPayloadLen(file, RefFramesEnd(file, 0)) > Len(file)

\* the event files load() reads that end in a torn frame
RefTornFiles(dir) ==
  {f \in DOMAIN dir : f[1] = "events" /\ f[2] >= RefBase(dir) /\ RefTorn(dir[f])}

(***************************************************************************)
(* C3: when an event file is whole frames F1..Fn followed by a frame cut   *)
(* short, load() applies the whole records of F1..Fn and nothing of the    *)
(* torn frame, deletes the file, returns false and writes a snapshot that  *)
(* holds the resulting map.                                                *)
(***************************************************************************)
C3_TornTail ==
  (alive /\ last.op = "open" /\ RefTornFiles(before) # {})
    => /\ last.res = "false"
       /\ objects = RefLoad(before)
       /\ RefTornFiles(before) \cap DOMAIN files = {}
       /\ SnapshotName(time) \in DOMAIN files
       /\ RefClean(files[SnapshotName(time)])
       /\ RefApply(EmptyMap,
                   RefRecords(Concat(RefFrames(files[SnapshotName(time)], 0))))
            = objects

\* C3 witness: a store opened on an event file of whole frames with records
\* and a torn frame behind them
C3_Witness ==
  /\ alive /\ last.op = "open" /\ last.res = "false"
  /\ \E f \in RefTornFiles(before) :
       /\ RefRecords(Concat(RefFrames(before[f], 0))) # <<>>
       /\ f \notin DOMAIN files
  /\ objects # EmptyMap

\* what a store constructed on the directory dir holds: [ok, objects], ok
\* being that the constructor raised nothing
Recover(dir) ==
  [ok |-> load([Fresh(8, NoFault) EXCEPT !.files = dir]).m.exc = NoExc,
   objects |-> load([Fresh(8, NoFault) EXCEPT !.files = dir]).m.objects]

(***************************************************************************)
(* C4: the process stopped inside save(syncSave), after the event log was  *)
(* closed, while the temporary snapshot was written, after the rename,     *)
(* after the new event log was opened or part-way through the removal of   *)
(* the obsolete files: the next load() yields the map that was recoverable *)
(* when the save began or the map that was being snapshotted, and the      *)
(* temporary file is not read.                                             *)
(***************************************************************************)
C4_SaveCrashRecovers ==
  [][(alive /\ ~alive' /\ last'.op = "save" /\ last'.res = "crash")
       => /\ Recover(files').ok
          /\ Recover(files').objects
               \in {Recover(files).objects, RefNonEmpty(objects)}
          /\ Recover(files').objects
               = Recover([f \in {x \in DOMAIN files' : x[1] # "tmp"} |-> files'[f]]).objects]_vars

\* C4 witness: the process was killed while the temporary snapshot was
\* written; the directory holds the cut temporary file and stands for a
\* map that is not empty
C4_Witness ==
  /\ ~alive /\ last.op = "save" /\ last.res = "crash"
  /\ \E f \in DOMAIN files : f[1] = "tmp" /\ ~RefClean(files[f])
  /\ Recover(files).ok /\ Recover(files).objects # EmptyMap

(***************************************************************************)
(* C5: update(k, v) writes the record to the event log buffer before it    *)
(* assigns objects[k] = v: a call of update that raised, because the frame *)
(* write it needed failed, leaves objects exactly as they were before the  *)
(* call.                                                                   *)
(***************************************************************************)
C5_UpdateLogsFirst ==
  [][(alive /\ alive' /\ calls' = calls + 1
        /\ last'.op = "update" /\ last'.res = "throw")
       => objects' = objects]_vars

\* C5 witness: an update raised on a store that holds an entry
C5_Witness ==
  /\ alive /\ last.op = "update" /\ last.res = "throw"
  /\ faults = 1 /\ objects # EmptyMap

\* the map replay() builds from the bytes of one file, starting empty
Replayed(file) == replay(Fresh(8, NoFault), file).m.objects

(***************************************************************************)
(* C6: replay of a file applies, of every frame, all the records           *)
(* serialized in it or none. For every file there is a number j of leading *)
(* frames such that the bytes of these j frames are records and nothing    *)
(* else, the map replay builds is these records applied in order, and no   *)
(* later frame, a frame of a wrong checksum or cut short among them,       *)
(* contributes a record.                                                   *)
(***************************************************************************)
C6_FrameAllOrNone ==
  \A f \in DOMAIN files :
    f[1] = "events" =>
      \E j \in 0..Len(RefFrames(files[f], 0)) :
        /\ RefWhole(Concat(SubSeq(RefFrames(files[f], 0), 1, j)))
        /\ Replayed(files[f])
             = RefApply(EmptyMap,
                        RefRecords(Concat(SubSeq(RefFrames(files[f], 0), 1, j))))

(***************************************************************************)
(* C7: every frame that update, erase, persist, flush or save appended to  *)
(* an .events or a .snapshot file holds a whole number of records: no      *)
(* record has its key in one frame and its value in the next.              *)
(***************************************************************************)
C7_FramesHoldWholeRecords ==
  \A f \in DOMAIN files :
    f[1] \in {"events", "snapshot"} =>
      \A i \in 1..Len(RefFrames(files[f], 0)) :
        RefWhole(RefFrames(files[f], 0)[i])

(***************************************************************************)
(* C8: a save() in which a write of the snapshot or its rename failed      *)
(* raises the error, leaves no temporary file behind and the generation    *)
(* as it was, and returns with the event file of that generation open      *)
(* again, so that the updates that follow are logged to it.                *)
(***************************************************************************)
C8_FailedSaveReopens ==
  [][(alive /\ alive' /\ calls' = calls + 1
        /\ last'.op = "save" /\ last'.res = "throw")
       => /\ \A f \in DOMAIN files' : f[1] # "tmp"
          /\ time' = time
          /\ events' = EventsName(time')
          /\ events' \in DOMAIN files']_vars

C10_OpenLogIsNewest ==
  (alive /\ last.op \in {"open", "save"} /\ last.res \in {"ok", "false"})
    => /\ events = EventsName(time)
       /\ events \in DOMAIN files
       /\ \A g \in RefGens(files, "snapshot") \cup RefGens(files, "events") :
            g <= time

\* C10 witness: a store opened on a directory of generation 1 or later, its
\* event file holding records already
C10_Witness ==
  /\ alive /\ last.op = "open" /\ last.res = "ok"
  /\ time >= 1 /\ events = EventsName(time)
  /\ RefGens(files, "snapshot") # {}
  /\ files[events] # <<>>

(***************************************************************************)
(* C11: save(forkSave) returns with a child forked, the parent's           *)
(* generation one higher than before and the event file of the new         *)
(* generation open; the child holds the map as it was at the fork. Once    *)
(* the child has finished and while its snapshot is the newest, a store    *)
(* opened on the directory holds every mutation made before the save (the  *)
(* child's map) and every flushed mutation made after it (the records of   *)
(* the event files from the new generation on).                            *)
(***************************************************************************)
C11_ForkSave ==
  [][/\ (alive /\ alive' /\ calls' = calls + 1 /\ last'.op = "save"
           /\ last'.mode = forkSave /\ last'.res = "ok")
          => /\ time' = time + 1
             /\ events' = EventsName(time') /\ events' \in DOMAIN files'
             /\ child'.phase = "snapshot" /\ child'.snapshotTime = time'
             /\ child'.objects = objects
     /\ (~alive /\ alive' /\ child.phase = "done"
           /\ <<"snapshot", child.snapshotTime>> \in DOMAIN files
           /\ RefBase(files) = child.snapshotTime)
          => objects' = RefEvents(files, child.snapshotTime,
                                  RefNonEmpty(child.objects))]_vars

\* C11 witness: a store opened after the child of a save(forkSave) wrote
\* the snapshot of a map that was not empty, on an event file of the new
\* generation whose records changed that map
C11_Witness ==
  /\ alive /\ last.op = "open" /\ last.res = "ok" /\ sessions = 2
  /\ child.phase = "done" /\ child.snapshotTime = time
  /\ RefNonEmpty(child.objects) # EmptyMap
  /\ RefRecords(Concat(RefFrames(files[EventsName(time)], 0))) # <<>>
  /\ objects # RefNonEmpty(child.objects)

(***************************************************************************)
(* A store opened on a directory that is given: any subset of the          *)
(* snapshots of generations 1..MaxDirGen and of the event files of         *)
(* generations 0..MaxDirGen, each of them empty, one frame with a record   *)
(* that sets a key, one frame with a record that removes it, or a frame    *)
(* cut short.                                                              *)
(***************************************************************************)
DirNames ==
  {SnapshotName(g) : g \in 1..MaxDirGen} \cup {EventsName(g) : g \in 0..MaxDirGen}

DirContents ==
  {<<>>,
   FrameBytes(SerBytes(<<1>>) \o SerBytes(<<7>>), forceCRC32),
   FrameBytes(SerBytes(<<1>>) \o SerBytes(emptyValue), forceCRC32),
   SubSeq(FrameBytes(SerBytes(<<2>>) \o SerBytes(<<7>>), forceCRC32), 1, 5)}

Dirs == UNION {[N -> DirContents] : N \in SUBSET DirNames}

InitDir ==
  /\ files \in Dirs
  /\ alive = FALSE
  /\ objects = EmptyMap /\ events = NoFile /\ buffer = <<>>
  /\ bufSize = 0 /\ readOffset = 0 /\ time = 0 /\ loaded = FALSE
  /\ last = [op |-> "init", mode |-> -1, res |-> "ok"]
  /\ before = EmptyMap /\ ps = <<>>
  /\ tasks = {} /\ child = NoChild /\ faults = 0 /\ dirty = {}
  /\ calls = 0 /\ sessions = 0

NextDir ==
  \/ \E b \in BufSizes : Open(b, NoFault)
  \/ Destroy

SpecDir == InitDir /\ [][NextDir]_vars

\* the generations of the event files load() replays
RefReplayed(dir) == {h \in RefGens(dir, "events") : h >= RefBase(dir)}

\* they are numbered from the snapshot's generation on without a gap, and
\* each of them replays cleanly
RefChain(dir) ==
  /\ \A h \in RefReplayed(dir) : \A x \in RefBase(dir)..h : x \in RefReplayed(dir)
  /\ \A h \in RefReplayed(dir) : RefClean(dir[EventsName(h)])

(***************************************************************************)
(* C12: a load() that raises nothing returns true, writes no snapshot and  *)
(* removes no file exactly when the event files of the loaded snapshot's   *)
(* generation (0 without a snapshot) or a later one are numbered           *)
(* consecutively from that generation on and all replay without error; the *)
(* store's generation is then the highest of them, or the snapshot's when  *)
(* there is none.                                                          *)
(***************************************************************************)
C12_LoadQuietIffChain ==
  [][(~alive /\ alive')
       => /\ (/\ last'.res = "ok"
              /\ DOMAIN files \subseteq DOMAIN files'
              /\ \A f \in DOMAIN files' :
                   f[1] = "snapshot" => f \in DOMAIN files /\ files'[f] = files[f])
               <=> RefChain(files)
          /\ RefChain(files)
               => time' = IF RefReplayed(files) = {} THEN RefBase(files)
                          ELSE SetMax(RefReplayed(files))]_vars

\* C12 witness: a store opened quietly on a snapshot of generation 1 and
\* the event files 1 and 2, both holding a record, beside an older event
\* file that was left alone
C12_Witness ==
  /\ alive /\ last.op = "open" /\ last.res = "ok" /\ sessions = 1
  /\ RefBase(before) = 1 /\ RefReplayed(before) = {1, 2}
  /\ EventsName(0) \in DOMAIN files
  /\ RefRecords(Concat(RefFrames(before[EventsName(1)], 0))) # <<>>
  /\ RefRecords(Concat(RefFrames(before[EventsName(2)], 0))) # <<>>
  /\ time = 2 /\ DOMAIN files = DOMAIN before

\* the stream of bytes logged to the open event file so far: the payloads
\* of its frames, then the buffer
RefLog(m) == Concat(RefFrames(m.files[m.events], 0)) \o m.buffer

(***************************************************************************)
(* C13: in every state of a live store and for every key, erase(k) of a    *)
(* key that is absent from objects changes nothing, neither objects nor    *)
(* the buffer and its offsets nor any file; erase(k) of a key that is      *)
(* present appends the record (k, empty value) to the log and removes k    *)
(* from objects.                                                           *)
(***************************************************************************)
C13_EraseEffect ==
  alive =>
    \A k \in Keys :
      IF k \in DOMAIN objects
        THEN /\ erase(Cur(NoFault), k).objects = MapErase(objects, k)
             /\ RefLog(erase(Cur(NoFault), k))
                  = RefLog(Cur(NoFault)) \o <<Len(k)>> \o k \o <<0>>
      ELSE erase(Cur(NoFault), k) = Cur(NoFault)

\* C13 witness: erase has just removed a key that an earlier record of the
\* log had set; the record of the removal is the last of the log
C13_Witness ==
  /\ alive /\ last.op = "erase" /\ last.res = "ok"
  /\ \E k \in Keys :
       /\ k \notin DOMAIN objects
       /\ Len(RefRecords(RefLog(Cur(NoFault)))) >= 2
       /\ RefRecords(RefLog(Cur(NoFault)))[Len(RefRecords(RefLog(Cur(NoFault))))]
            = <<k, <<>>>>
       /\ RefRecords(RefLog(Cur(NoFault)))[1] = <<k, <<7>>>>

(***************************************************************************)
(* C14: no snapshot file that save() wrote holds a record whose value is   *)
(* empty, also when objects maps a key to an empty value, as it does after *)
(* update(k, empty).                                                       *)
(***************************************************************************)
C14_SnapshotOmitsEmpty ==
  \A f \in DOMAIN files :
    f[1] = "snapshot" =>
      \A i \in 1..Len(RefRecords(Concat(RefFrames(files[f], 0)))) :
        ~is_empty(RefRecords(Concat(RefFrames(files[f], 0)))[i][2])

(***************************************************************************)
(* C15: destroying the store writes nothing to disk, and the store opened  *)
(* next holds what the frames on disk hold: every record emitted in a      *)
(* frame before the destruction, and none of the records that were still   *)
(* in the buffer.                                                          *)
(***************************************************************************)
C15_DestroyWritesNothing ==
  [][/\ (alive /\ ~alive' /\ last'.op = "destroy") => files' = files
     /\ (~alive /\ alive' /\ last.op = "destroy") => objects' = RefLoad(files)]_vars

\* C15 witness: a store destroyed with records in its buffer, after it had
\* emitted a frame with a record; the map on disk is not the map it held
C15_Witness ==
  /\ ~alive /\ last.op = "destroy" /\ last.res = "lost"
  /\ files = before
  /\ RefLoad(files) # EmptyMap
  /\ RefLoad(files) # RefNonEmpty(objects)

(***************************************************************************)
(* A partial-aware value type P (autoser/partial.h), here                  *)
(*   struct P { uint8_t id; std::string heavy; uint8_t counter; }          *)
(* with AUTO_SERIALIZABLE_MEMBERS(id, heavy, counter) and                  *)
(* AUTO_PARTIAL_SERIALIZABLE_MEMBERS(id, counter). A value is a record     *)
(* [id, heavy, counter]. isSnapshot is the calling thread's                *)
(* _logkv_snapshot_flag, fullSer its _full_serialization_flag.             *)
(***************************************************************************)
PEmpty == [id |-> 0, heavy |-> <<>>, counter |-> 0]

\* the values the serializer and the store are called with
PVals == {PEmpty,
          [id |-> 0, heavy |-> <<7>>, counter |-> 0],
          [id |-> 1, heavy |-> <<7>>, counter |-> 0],
          [id |-> 1, heavy |-> <<8>>, counter |-> 1],
          [id |-> 1, heavy |-> <<>>, counter |-> 1]}

\* ObjectEncoding
EncFull == 0
EncPart == 1
EncNone == 2

\* serializer<uint8_t>::write: sizeof(T) bytes, big-endian
UintBytes(val) == <<val>>

\* are_members_empty(obj._as_const_member_tie())
PIsEmpty(obj) == obj.id = 0 /\ is_empty(obj.heavy) /\ obj.counter = 0

\* what write_members hands to the Writer, member by member
FullPieces(obj) == <<UintBytes(obj.id), SerBytes(obj.heavy), UintBytes(obj.counter)>>
PartialPieces(obj) == <<UintBytes(obj.id), UintBytes(obj.counter)>>

\* get_size_for_members
RECURSIVE PiecesSize(_)
PiecesSize(pieces) ==
  IF pieces = <<>> THEN 0 ELSE Len(pieces[1]) + PiecesSize(Tail(pieces))

PGetSize(isSnapshot, fullSer, obj) ==
  IF isSnapshot \/ fullSer THEN PiecesSize(FullPieces(obj))
  ELSE PiecesSize(PartialPieces(obj)) + (IF isSnapshot THEN 0 ELSE 1)

\* Writer::write piece after piece into remaining bytes: the bytes stored
\* and the value write() returns, which exceeds the size offered when a
\* piece did not fit (insufficient_buffer)
RECURSIVE WriterRun(_, _, _)
WriterRun(pieces, remaining, done) ==
  IF pieces = <<>> THEN [bytes |-> done, used |-> Len(done)]
  ELSE IF Len(pieces[1]) > remaining
    THEN [bytes |-> done, used |-> Len(done) + Len(pieces[1])]
  ELSE WriterRun(Tail(pieces), remaining - Len(pieces[1]), done \o pieces[1])

\* a write that puts the header byte in front of snapshot records too
PWritePiecesHeaded(isSnapshot, fullSer, obj) ==
  IF PIsEmpty(obj) /\ ~isSnapshot THEN <<UintBytes(EncNone)>>
  ELSE IF fullSer \/ isSnapshot THEN <<UintBytes(EncFull)>> \o FullPieces(obj)
  ELSE <<UintBytes(EncPart)>> \o PartialPieces(obj)

\* the header byte and the member list of serializer<P>::write
PWritePieces(isSnapshot, fullSer, obj) ==
  IF isSnapshot THEN FullPieces(obj)
  ELSE IF PIsEmpty(obj) THEN <<UintBytes(EncNone)>>
  ELSE IF fullSer THEN <<UintBytes(EncFull)>> \o FullPieces(obj)
  ELSE <<UintBytes(EncPart)>> \o PartialPieces(obj)

\* serializer<P>::write(dest, size, obj): [bytes, used]
PWrite(size, isSnapshot, fullSer, obj) ==
  WriterRun(PWritePieces(isSnapshot, fullSer, obj), size, <<>>)

\* serializer<P>::read(src, size, obj) from src[pos + 1 ..], member after
\* member: [used, threw, val], val being obj as the call left it
PReadCounter(src, pos, obj) ==
  IF Len(src) - pos < 1 THEN [used |-> pos + 1, threw |-> FALSE, val |-> obj]
  ELSE [used |-> pos + 1, threw |-> FALSE,
        val |-> [obj EXCEPT !.counter = src[pos + 1]]]

\* the string member was read (r)
PReadHeavyDone(r, src, pos, obj) ==
  IF r.threw THEN [used |-> pos, threw |-> TRUE, val |-> obj]
  ELSE IF r.used > Len(src) - pos
    THEN [used |-> pos + r.used, threw |-> FALSE, val |-> obj]
  ELSE PReadCounter(src, pos + r.used, [obj EXCEPT !.heavy = r.val])

PReadHeavy(src, pos, obj) ==
  PReadHeavyDone(SerRead(SubSeq(src, pos + 1, Len(src)), obj.heavy), src, pos, obj)

PReadMembers(src, pos, obj, full) ==
  IF Len(src) - pos < 1 THEN [used |-> pos + 1, threw |-> FALSE, val |-> obj]
  ELSE IF full THEN PReadHeavy(src, pos + 1, [obj EXCEPT !.id = src[pos + 1]])
  ELSE PReadCounter(src, pos + 1, [obj EXCEPT !.id = src[pos + 1]])

PRead(src, isSnapshot, obj) ==
  IF isSnapshot THEN PReadMembers(src, 0, obj, TRUE)
  ELSE IF Len(src) < 1 THEN [used |-> 1, threw |-> FALSE, val |-> obj]
  ELSE IF src[1] = EncNone THEN [used |-> 1, threw |-> FALSE, val |-> PEmpty]
  ELSE IF src[1] = EncFull THEN PReadMembers(src, 1, obj, TRUE)
  ELSE IF src[1] = EncPart THEN PReadMembers(src, 1, obj, FALSE)
  ELSE [used |-> 0, threw |-> TRUE, val |-> obj]

(***************************************************************************)
(* Store<std::map, uint8_t, P>: the store of the partial-aware type. The   *)
(* directory is reduced to its newest snapshot (snap) and the events log   *)
(* of that generation (log), each a sequence of frame payloads; Torn       *)
(* stands for a frame readFrame rejects. A writer w is                     *)
(* [buf, bufsize, out, threw]: buffer_[0 .. writeOffset_), buffer_.size(), *)
(* the frames written to the file, and whether writeFrame threw.           *)
(***************************************************************************)
PKeys == {1}
PBufSize == 4
PThreads == {"owner", "other"}
Torn == <<>>

NoMap == [k \in {} |-> PEmpty]

PWriteFrame(w, fault) ==
  IF w.threw \/ w.buf = <<>> THEN w
  ELSE IF fault THEN [w EXCEPT !.threw = TRUE]
  ELSE [w EXCEPT !.out = Append(@, w.buf), !.buf = <<>>]

\* the doubling of buffer_ in writeObject
RECURSIVE GrowTo(_, _)
GrowTo(targetSz, used) ==
  IF targetSz < used THEN GrowTo(targetSz * 2, used) ELSE targetSz

PGrow(w, used) ==
  IF w.threw \/ w.bufsize >= used THEN w
  ELSE [w EXCEPT !.bufsize = GrowTo(w.bufsize * 2, used)]

RECURSIVE PWriteObject(_, _, _)
PWriteObjectUsed(w, pieces, fault, run) ==
  IF run.used > w.bufsize - Len(w.buf)
    THEN PWriteObject(PGrow(PWriteFrame(w, fault), run.used), pieces, fault)
  ELSE [w EXCEPT !.buf = @ \o run.bytes]

PWriteObject(w, pieces, fault) ==
  IF w.threw THEN w
  ELSE PWriteObjectUsed(w, pieces, fault,
                        WriterRun(pieces, w.bufsize - Len(w.buf), <<>>))

PWriteUpdate(w, key, isSnapshot, fullSer, value, fault) ==
  PWriteObject(PWriteObject(w, <<UintBytes(key)>>, fault),
               PWritePieces(isSnapshot, fullSer, value), fault)

\* the loop of writeSnapshot over objects_, in key order
RECURSIVE PSnapshotLoop(_, _, _, _, _)
PSnapshotLoop(w, objs, todo, isSnapshot, fault) ==
  IF todo = {} THEN w
  ELSE PSnapshotLoop(PWriteUpdate(w, SetMin(todo), isSnapshot, FALSE,
                                  objs[SetMin(todo)], fault),
                     objs, todo \ {SetMin(todo)}, isSnapshot, fault)

\* readFrame's resize of buffer_ to the payload it reads
PFrameBuf(bufsize, frame) == IF bufsize < Len(frame) THEN Len(frame) ELSE bufsize

\* Store::replay. The value of a record is read from what is left of the
\* frame of its key, or from the next frame when nothing is left.
PValueSrc(rest, frames, bufsize) ==
  IF rest # <<>>
    THEN [ok |-> TRUE, src |-> rest, frames |-> frames, bufsize |-> bufsize]
  ELSE IF frames = <<>> \/ Head(frames) = Torn
    THEN [ok |-> FALSE, src |-> <<>>, frames |-> frames, bufsize |-> bufsize]
  ELSE [ok |-> TRUE, src |-> Head(frames), frames |-> Tail(frames),
        bufsize |-> PFrameBuf(bufsize, Head(frames))]

PPut(objs, key, val) ==
  [k \in DOMAIN objs \cup {key} |-> IF k = key THEN val ELSE objs[k]]

PDrop(objs, key) == [k \in DOMAIN objs \ {key} |-> objs[k]]

PNonEmpty(objs) ==
  [k \in {j \in DOMAIN objs : ~PIsEmpty(objs[j])} |-> objs[k]]

\* the map after one record's value was read (r) for key
PReplayStore(objs, key, r) ==
  IF key \in DOMAIN objs
    THEN IF PIsEmpty(r.val) THEN PDrop(objs, key) ELSE PPut(objs, key, r.val)
  ELSE IF PIsEmpty(r.val) THEN objs ELSE PPut(objs, key, r.val)

\* the map when reading the value failed: a value of the map was read in place
PReplayFailed(objs, key, r) ==
  IF key \in DOMAIN objs THEN PPut(objs, key, r.val) ELSE objs

\* a replay that reads every value into a default-constructed object
PReadIntoFresh(src, isSnapshot, objs, key) == PRead(src, isSnapshot, PEmpty)

PReadInto(src, isSnapshot, objs, key) ==
  PRead(src, isSnapshot, IF key \in DOMAIN objs THEN objs[key] ELSE PEmpty)

RECURSIVE PReplayLoop(_, _, _, _, _)
PReplayValue(key, vs, objs, isSnapshot, r) ==
  IF r.threw \/ r.used > Len(vs.src)
    THEN [ok |-> FALSE, objects |-> PReplayFailed(objs, key, r),
          bufsize |-> vs.bufsize]
  ELSE PReplayLoop(vs.frames, SubSeq(vs.src, r.used + 1, Len(vs.src)),
                   PReplayStore(objs, key, r), isSnapshot, vs.bufsize)

PReplayRecord(key, vs, objs, isSnapshot) ==
  IF ~vs.ok THEN [ok |-> FALSE, objects |-> objs, bufsize |-> vs.bufsize]
  ELSE PReplayValue(key, vs, objs, isSnapshot,
                    PReadInto(vs.src, isSnapshot, objs, key))

PReplayLoop(frames, cur, objs, isSnapshot, bufsize) ==
  IF cur = <<>>
    THEN IF frames = <<>>
           THEN [ok |-> TRUE, objects |-> objs, bufsize |-> bufsize]
         ELSE IF Head(frames) = Torn
           THEN [ok |-> FALSE, objects |-> objs, bufsize |-> bufsize]
         ELSE PReplayLoop(Tail(frames), Head(frames), objs, isSnapshot,
                          PFrameBuf(bufsize, Head(frames)))
  ELSE PReplayRecord(cur[1], PValueSrc(Tail(cur), frames, bufsize), objs,
                     isSnapshot)

PReplay(frames, objs, isSnapshot, bufsize) ==
  PReplayLoop(frames, <<>>, objs, isSnapshot, bufsize)

\* flags that are one static bool shared by every thread
SetFlagShared(flags, t, v) == [u \in DOMAIN flags |-> v]

\* _logkvStoreSnapshot(bool) and _setFullSerialization(bool) of the calling
\* thread t: the flags are thread_local
SetFlag(flags, t, v) == [flags EXCEPT ![t] = v]

PWriter(buf, bufsize) ==
  [buf |-> buf, bufsize |-> bufsize, out |-> <<>>, threw |-> FALSE]

\* writeSnapshot after the loop left writer w: the flag is reset and the
\* last frame flushed, unless the loop threw
PSnapshotEnd(w, flags, fault) ==
  IF w.threw
    THEN [ok |-> FALSE, w |-> w, flag |-> flags]
  ELSE [ok |-> ~PWriteFrame(w, fault).threw, w |-> PWriteFrame(w, fault),
        flag |-> SetFlag(flags, "owner", FALSE)]

\* writeSnapshot from the _logkvStoreSnapshot(true) on
PWriteSnapshot(objs, bufsize, flags, fault) ==
  PSnapshotEnd(PSnapshotLoop(PWriter(<<>>, bufsize), objs, DOMAIN objs,
                             SetFlag(flags, "owner", TRUE)["owner"], fault),
               SetFlag(flags, "owner", TRUE), fault)

\* load() once the snapshot (rs) and the events log (re) were replayed: a
\* log that failed is removed and a snapshot of the map saved
PLoadEnd(st, rs, re, sn) ==
  IF re.ok
    THEN [st EXCEPT !.open = TRUE, !.objects = re.objects, !.buf = <<>>,
                    !.bufsize = re.bufsize, !.hasEvents = TRUE, !.res = "ok",
                    !.dmap = re.objects, !.lost = FALSE]
  ELSE [st EXCEPT !.open = TRUE, !.objects = re.objects, !.buf = <<>>,
                  !.bufsize = sn.w.bufsize, !.hasEvents = TRUE,
                  !.hasSnap = TRUE, !.snap = sn.w.out, !.log = <<>>,
                  !.flag = sn.flag, !.res = "corrupted",
                  !.dmap = PNonEmpty(re.objects), !.lost = FALSE]

PLoadEvents(st, rs, re) ==
  PLoadEnd(st, rs, re, PWriteSnapshot(re.objects, re.bufsize, st.flag, FALSE))

\* load() once the snapshot was replayed (rs)
PLoadSnapshot(st, rs) ==
  IF ~rs.ok THEN [st EXCEPT !.res = "raised"]
  ELSE PLoadEvents(st, rs, PReplay(st.log, rs.objects, st.flag["owner"], rs.bufsize))

\* Store::load: the snapshot is replayed between _logkvStoreSnapshot(true)
\* and _logkvStoreSnapshot(false)
PLoad(st) ==
  IF st.hasSnap
    THEN PLoadSnapshot([st EXCEPT !.flag = SetFlag(SetFlag(st.flag, "owner", TRUE), "owner", FALSE)],
                       PReplay(st.snap, NoMap,
                               SetFlag(st.flag, "owner", TRUE)["owner"], PBufSize))
  ELSE PLoadSnapshot(st, [ok |-> TRUE, objects |-> NoMap, bufsize |-> PBufSize])

\* what a re-opened store is expected to hold for key after update(key, value)
\* reached the log: a partial record overwrites the partial members only
RefDurableValue(d, fullSer, key, value) ==
  IF fullSer THEN value
  ELSE [(IF key \in DOMAIN d THEN d[key] ELSE PEmpty)
          EXCEPT !.id = value.id, !.counter = value.counter]

RefDurable(d, fullSer, key, value) ==
  IF PIsEmpty(value) \/ PIsEmpty(RefDurableValue(d, fullSer, key, value))
    THEN PDrop(d, key)
  ELSE PPut(d, key, RefDurableValue(d, fullSer, key, value))

\* the process dies: the store object, its buffer and the thread_local flags
\* go with it
PCrashed(st, op) ==
  [st EXCEPT !.open = FALSE, !.buf = <<>>, !.hasEvents = FALSE,
             !.flag = [t \in PThreads |-> FALSE],
             !.full = [t \in PThreads |-> FALSE],
             !.pc = "idle", !.op = op, !.res = "crash", !.lost = TRUE]

\* the store after writer w ran on the events log for op
PWrote(st, op, w) ==
  IF w.threw THEN PCrashed(st, op)
  ELSE [st EXCEPT !.buf = w.buf, !.bufsize = w.bufsize,
                  !.log = @ \o w.out, !.op = op, !.res = "ok"]

POpen ==
  /\ ~ps.open /\ ps.sessions < MaxSessions
  /\ ps' = PLoad([ps EXCEPT !.sessions = @ + 1, !.op = "open",
                            !.flag = SetFlag(ps.flag, "owner", FALSE)])
  /\ UNCHANGED svars

\* update(key, value); fwrite on the null events_ a failed save left ends
\* the process
PUpdate(key, value) ==
  /\ ps.open /\ ps.pc = "idle" /\ ps.calls < MaxCalls
  /\ ps' = PWrote([ps EXCEPT !.calls = @ + 1,
                             !.objects = PPut(ps.objects, key, value),
                             !.dmap = RefDurable(ps.dmap, ps.full["owner"], key, value)],
                  "update",
                  PWriteUpdate(PWriter(ps.buf, ps.bufsize), key, ps.flag["owner"],
                               ps.full["owner"], value, ~ps.hasEvents))
  /\ UNCHANGED svars

PFlush ==
  /\ ps.open /\ ps.pc = "idle" /\ ps.buf # <<>>
  /\ ps' = PWrote(ps, "flush", PWriteFrame(PWriter(ps.buf, ps.bufsize), ~ps.hasEvents))
  /\ UNCHANGED svars

PSetFull(t, f) ==
  /\ ps.pc = "idle" \/ t # "owner"
  /\ ps.full[t] # f
  /\ ps' = [ps EXCEPT !.full = SetFlag(ps.full, t, f)]
  /\ UNCHANGED svars

\* save(syncSave) up to the loop of writeSnapshot: events_ is closed
\* unflushed, writeOffset_ reset, the flag set
PSaveBegin ==
  /\ ps.open /\ ps.pc = "idle" /\ ps.calls < MaxCalls
  /\ ps' = [ps EXCEPT !.calls = @ + 1, !.hasEvents = FALSE,
                      !.lost = @ \/ ps.buf # <<>>, !.buf = <<>>,
                      !.flag = SetFlag(ps.flag, "owner", TRUE),
                      !.pc = "snapshot", !.op = "save", !.res = "running"]
  /\ UNCHANGED svars

\* the store after writeSnapshot (sn) within save
PSaved(st, sn) ==
  IF sn.ok
    THEN [st EXCEPT !.pc = "idle", !.res = "ok", !.flag = sn.flag,
                    !.buf = <<>>, !.bufsize = sn.w.bufsize,
                    !.hasSnap = TRUE, !.snap = sn.w.out, !.log = <<>>,
                    !.hasEvents = TRUE,
                    !.dmap = PNonEmpty(st.objects), !.lost = FALSE]
  ELSE [st EXCEPT !.pc = "idle", !.res = "raised", !.flag = sn.flag,
                  !.buf = sn.w.buf, !.bufsize = sn.w.bufsize]

\* the rest of save(): the loop, the flush, the rename; fault makes the
\* writes to the temporary file fail
PSaveEnd(fault) ==
  /\ ps.open /\ ps.pc = "snapshot"
  /\ ps' = PSaved(ps, PSnapshotEnd(
                        PSnapshotLoop(PWriter(<<>>, ps.bufsize), ps.objects,
                                      DOMAIN ps.objects, ps.flag["owner"], fault),
                        ps.flag, fault))
  /\ UNCHANGED svars

PDestroy ==
  /\ ps.open /\ ps.pc = "idle"
  /\ ps' = [ps EXCEPT !.open = FALSE, !.lost = @ \/ ps.buf # <<>>, !.buf = <<>>,
                      !.hasEvents = FALSE, !.op = "destroy", !.res = "ok"]
  /\ UNCHANGED svars

\* the newest snapshot loses the end of its last frame while no store is open
PDamage ==
  /\ ~ps.open /\ ps.hasSnap /\ ps.snap # <<>>
  /\ ps.snap[Len(ps.snap)] # Torn
  /\ ps' = [ps EXCEPT !.snap[Len(ps.snap)] = Torn, !.op = "damage", !.lost = TRUE]
  /\ UNCHANGED svars

\* another thread serializes obj into n bytes with its own flags
POther(obj, n) ==
  /\ ps' = [ps EXCEPT !.out = [obj |-> obj, size |-> n,
                               fullSer |-> ps.full["other"],
                               during |-> ps.pc = "snapshot",
                               w |-> PWrite(n, ps.flag["other"], ps.full["other"], obj)]]
  /\ UNCHANGED svars

\* a directory an earlier run with buffer size PBufSize left: no snapshot, or
\* the snapshot of one value
PDirs ==
  {[hasSnap |-> FALSE, snap |-> <<>>]}
    \cup {[hasSnap |-> TRUE,
           snap |-> PWriteSnapshot((1 :> v), PBufSize,
                                   [t \in PThreads |-> FALSE], FALSE).w.out] :
          v \in {u \in PVals : u.id = 1 /\ u.counter = 0}}

InitPartial ==
  /\ \E d \in PDirs :
       ps = [open |-> FALSE, objects |-> NoMap, buf |-> <<>>, bufsize |-> PBufSize,
             hasEvents |-> FALSE, hasSnap |-> d.hasSnap, snap |-> d.snap,
             log |-> <<>>, flag |-> [t \in PThreads |-> FALSE],
             full |-> [t \in PThreads |-> FALSE], pc |-> "idle",
             op |-> "none", res |-> "ok", out |-> <<>>,
             dmap |-> PNonEmpty(PReplay(d.snap, NoMap, TRUE, PBufSize).objects),
             lost |-> FALSE, calls |-> 0, sessions |-> 0]
  /\ files = EmptyMap /\ alive = FALSE
  /\ objects = EmptyMap /\ events = NoFile /\ buffer = <<>>
  /\ bufSize = 0 /\ readOffset = 0 /\ time = 0 /\ loaded = FALSE
  /\ last = [op |-> "init", mode |-> -1, res |-> "ok"]
  /\ before = EmptyMap
  /\ tasks = {} /\ child = NoChild /\ faults = 0 /\ dirty = {}
  /\ calls = 0 /\ sessions = 0

NextPartial ==
  \/ POpen
  \/ \E k \in PKeys, v \in PVals : PUpdate(k, v)
  \/ PFlush
  \/ \E t \in PThreads, f \in BOOLEAN : PSetFull(t, f)
  \/ PSaveBegin
  \/ \E fault \in BOOLEAN : PSaveEnd(fault)
  \/ PDestroy
  \/ PDamage
  \/ \E obj \in {PEmpty, CHOOSE u \in PVals : u.heavy = <<8>>} : POther(obj, PBufSize * 2)

SpecPartial == InitPartial /\ [][NextPartial]_vars

\* C16: re-opening a store of the partial-aware type whose events were all
\* flushed yields, for every key, the value the snapshot and the earlier
\* records gave it with only the partial members (id, counter) overwritten
\* by each record written in partial mode: heavy stays as the snapshot had it.
C16_PartialReplayKeepsHeavy ==
  [][(~ps.open /\ ps'.open /\ ~ps.lost) => ps'.objects = ps.dmap]_vars

\* C16 witness: the snapshot held heavy = <<7>>, the log holds one partial
\* record of an update that carried another heavy, and the re-opened store
\* has the new counter with heavy = <<7>>
C16_Witness ==
  /\ ps.open /\ ps.op = "open" /\ ps.sessions = 2 /\ ps.hasSnap
  /\ ps.log = <<<<1, EncPart, 1, 1>>>>
  /\ ps.objects = (1 :> [id |-> 1, heavy |-> <<7>>, counter |-> 1])

(***************************************************************************)
(* serializer<P> called directly by one thread: ps holds the thread's two  *)
(* flags, the last get_size/write call (w) and the last read call (r).     *)
(***************************************************************************)
SerSize == 8

\* the buffers read is given: what write produces, cut short, with bytes
\* after it, and with a header byte that is no ObjectEncoding
SerSrcs ==
  {PWrite(SerSize, sn, fl, o).bytes : sn \in BOOLEAN, fl \in BOOLEAN, o \in PVals}
    \cup {<<>>, <<EncPart, 1>>, <<EncFull, 1, 1>>, <<EncNone, 1>>,
           <<3>>, <<3, 1, 1>>, <<255, 0, 0, 0>>}

SerOlds == {PEmpty, [id |-> 1, heavy |-> <<8>>, counter |-> 1]}

NoCall == [done |-> FALSE]

InitSer ==
  /\ ps = [snapshot |-> FALSE, full |-> FALSE, w |-> NoCall, r |-> NoCall]
  /\ files = EmptyMap /\ alive = FALSE
  /\ objects = EmptyMap /\ events = NoFile /\ buffer = <<>>
  /\ bufSize = 0 /\ readOffset = 0 /\ time = 0 /\ loaded = FALSE
  /\ last = [op |-> "init", mode |-> -1, res |-> "ok"]
  /\ before = EmptyMap
  /\ tasks = {} /\ child = NoChild /\ faults = 0 /\ dirty = {}
  /\ calls = 0 /\ sessions = 0

SerSetSnapshot(s) ==
  /\ ps.snapshot # s
  /\ ps' = [ps EXCEPT !.snapshot = s]
  /\ UNCHANGED svars

SerSetFull(f) ==
  /\ ps.full # f
  /\ ps' = [ps EXCEPT !.full = f]
  /\ UNCHANGED svars

\* get_size(obj), then write(dest, n, obj)
SerWrite(obj, n) ==
  /\ ps' = [ps EXCEPT !.w = [done |-> TRUE, obj |-> obj, n |-> n,
                             isSnapshot |-> ps.snapshot, fullSer |-> ps.full,
                             size |-> PGetSize(ps.snapshot, ps.full, obj),
                             res |-> PWrite(n, ps.snapshot, ps.full, obj)]]
  /\ UNCHANGED svars

\* read(src, Len(src), obj) with obj = old before the call
SerReadCall(src, old) ==
  /\ ps' = [ps EXCEPT !.r = [done |-> TRUE, src |-> src, old |-> old,
                             isSnapshot |-> ps.snapshot,
                             res |-> PRead(src, ps.snapshot, old)]]
  /\ UNCHANGED svars

NextSer ==
  \/ \E s \in BOOLEAN : SerSetSnapshot(s)
  \/ \E f \in BOOLEAN : SerSetFull(f)
  \/ \E obj \in PVals, n \in {2, SerSize} : SerWrite(obj, n)
  \/ \E src \in SerSrcs, old \in SerOlds : SerReadCall(src, old)

SpecSer == InitSer /\ [][NextSer]_vars

\* the member lists as the format states them: one byte per integer, the
\* string as its length and its bytes
RefFull(o) == <<o.id, Len(o.heavy)>> \o o.heavy \o <<o.counter>>
RefPart(o) == <<o.id, o.counter>>

\* the objects whose records fit the buffers of SerSrcs
RefBytes == {0, 1, 2, 3, 7, 8, 255}
RefVals == [id : RefBytes, heavy : {<<>>} \cup {<<b>> : b \in RefBytes},
            counter : RefBytes]

\* the forms of a record: <<form, object, bytes>>
RefForms(isSnapshot) ==
  IF isSnapshot THEN {<<"full", o, RefFull(o)>> : o \in RefVals}
  ELSE {<<"none", PEmpty, <<EncNone>>>>}
         \cup {<<"full", o, <<EncFull>> \o RefFull(o)>> : o \in RefVals}
         \cup {<<"part", o, <<EncPart>> \o RefPart(o)>> : o \in RefVals}

IsPrefix(a, b) == Len(a) <= Len(b) /\ SubSeq(b, 1, Len(a)) = a

\* C17: outside a snapshot write emits 0x02 alone for an empty object, 0x00
\* and the full member list under force_full, 0x01 and the partial member
\* list otherwise; in a snapshot the full member list without header. read
\* succeeds exactly on buffers that start with one of these forms, giving
\* the object (for a partial record: the old object with the partial members
\* replaced), and raises on every other header byte.
C17_HeaderForms ==
  /\ (ps.w.done /\ ps.w.n = SerSize) =>
        /\ ps.w.res.used = Len(ps.w.res.bytes)
        /\ ps.w.res.bytes =
             IF ps.w.isSnapshot THEN RefFull(ps.w.obj)
             ELSE IF ps.w.obj = PEmpty THEN <<EncNone>>
             ELSE IF ps.w.fullSer THEN <<EncFull>> \o RefFull(ps.w.obj)
             ELSE <<EncPart>> \o RefPart(ps.w.obj)
  /\ ps.r.done =>
        /\ (~ps.r.res.threw /\ ps.r.res.used <= Len(ps.r.src))
              <=> \E fm \in RefForms(ps.r.isSnapshot) : IsPrefix(fm[3], ps.r.src)
        /\ \A fm \in RefForms(ps.r.isSnapshot) :
              IsPrefix(fm[3], ps.r.src) =>
                /\ ps.r.res.used = Len(fm[3])
                /\ ps.r.res.val =
                     IF fm[1] = "part"
                       THEN [ps.r.old EXCEPT !.id = fm[2].id, !.counter = fm[2].counter]
                     ELSE fm[2]
        /\ (~ps.r.isSnapshot /\ ps.r.src # <<>>
               /\ ps.r.src[1] \notin {EncFull, EncPart, EncNone}) => ps.r.res.threw

\* C17 witness: a non-empty object was written under force_full outside a
\* snapshot, and a buffer with header byte 3 was read and raised
C17_Witness ==
  /\ ps.w.done /\ ps.w.n = SerSize /\ ~ps.w.isSnapshot /\ ps.w.fullSer
  /\ ps.w.obj.heavy = <<8>> /\ ps.w.res.bytes[1] = EncFull
  /\ ps.r.done /\ ~ps.r.isSnapshot /\ ps.r.src = <<3, 1, 1>> /\ ps.r.res.threw

\* C18: get_size(v) is the number of bytes write(v) emits, whatever the two
\* flags and whether v is empty or not.
C18_SizeIsWritten ==
  (ps.w.done /\ ps.w.n = SerSize) => ps.w.size = ps.w.res.used

\* C19: the snapshot_in_progress flag of the thread that owns the store is
\* false whenever that thread is not inside a snapshot write or a snapshot
\* replay, in particular after save() or load() returned or raised.
C19_FlagScoped == ps.pc = "idle" => ~ps.flag["owner"]

\* C20: while the owner of the store is inside save() with its
\* snapshot_in_progress flag set, the flag of the other thread is false and
\* what the other thread serialized meanwhile has the header form of a
\* record outside a snapshot.
C20_FlagPerThread ==
  (ps.pc = "snapshot" /\ ps.flag["owner"])
    => /\ ~ps.flag["other"]
       /\ (ps.out # <<>> /\ ps.out.during)
            => ps.out.w.bytes =
                 IF ps.out.obj = PEmpty THEN <<EncNone>>
                 ELSE IF ps.out.fullSer THEN <<EncFull>> \o RefFull(ps.out.obj)
                 ELSE <<EncPart>> \o RefPart(ps.out.obj)

\* C20 witness: the owner is inside save() and the other thread has
\* serialized a non-empty object meanwhile
C20_Witness ==
  /\ ps.pc = "snapshot" /\ ps.flag["owner"]
  /\ ps.out # <<>> /\ ps.out.during /\ ps.out.obj.heavy = <<8>>
  /\ ps.objects # NoMap

(***************************************************************************)
(* The serializers of autoser.h over a small universe of types. A type is  *)
(* [k, n, of]: its kind, its width (bytes of an integer, bits of the       *)
(* VarUint's integer) and its member or element types. Values: a number    *)
(* for the integers and VarUints, a byte sequence for std::string, the     *)
(* sequence of the elements for std::vector and std::set (in iteration     *)
(* order) and of the members for std::tuple and composites,                *)
(* <<index, value>> for std::variant, <<>> for std::monostate.               *)
(* write returns [ret, bytes]: the value returned and the bytes stored     *)
(* from dest[0] on. read returns [used, threw, val]: val is the            *)
(* destination object as the call left it.                                 *)
(***************************************************************************)
MAX_AUTOSER_ITEMS == 268435456

TInt(n) == [k |-> "int", n |-> n, of |-> <<>>]
TVarUint(n) == [k |-> "varuint", n |-> n, of |-> <<>>]
TBytes == [k |-> "bytes", n |-> 0, of |-> <<>>]
TMono == [k |-> "mono", n |-> 0, of |-> <<>>]
TVector(t) == [k |-> "vector", n |-> 0, of |-> <<t>>]
TSet(t) == [k |-> "set", n |-> 0, of |-> <<t>>]
TTuple(ts) == [k |-> "tuple", n |-> 0, of |-> ts]
TVariant(ts) == [k |-> "variant", n |-> 0, of |-> ts]

\* the bytes of val in the order of a little-endian host, unconverted
NativeOrder(val, n) == ToLittleEndian(val, n)

\* boost::endian::native_to_big and the memcpy of sizeof(T) bytes
RECURSIVE BigEndian(_, _)
BigEndian(val, n) ==
  IF n = 0 THEN <<>> ELSE BigEndian(val \div 256, n - 1) \o <<val % 256>>

RECURSIVE FromBigEndian(_, _)
FromBigEndian(src, n) ==
  IF n = 0 THEN 0 ELSE FromBigEndian(src, n - 1) * 256 + src[n]

\* a decoding loop that bounds the number of bytes only and keeps the low
\* bits of what it decoded
RECURSIVE VarReadLoopTruncating(_, _, _, _, _)
VarReadLoopTruncating(src, i, result, bits, old) ==
  IF i >= Len(src) THEN [used |-> Len(src) + 1, threw |-> FALSE, val |-> old]
  ELSE IF i >= (bits + 6) \div 7 THEN [used |-> 0, threw |-> TRUE, val |-> old]
  ELSE IF src[i + 1] < 128
    THEN [used |-> i + 1, threw |-> FALSE,
          val |-> (result + (src[i + 1] % 128) * 2 ^ (7 * i)) % 2 ^ bits]
  ELSE VarReadLoopTruncating(src, i + 1,
                             (result + (src[i + 1] % 128) * 2 ^ (7 * i)) % 2 ^ bits,
                             bits, old)

\* the loop of serializer<VarUint<T>>::read for a T of bits bits
RECURSIVE VarReadLoop(_, _, _, _, _)
VarReadLoop(src, i, result, bits, old) ==
  IF i >= Len(src) THEN [used |-> Len(src) + 1, threw |-> FALSE, val |-> old]
  ELSE IF i >= (bits + 6) \div 7 THEN [used |-> 0, threw |-> TRUE, val |-> old]
  ELSE IF src[i + 1] % 128 > (2 ^ bits - 1) \div (2 ^ (7 * i))
    THEN [used |-> 0, threw |-> TRUE, val |-> old]
  ELSE IF src[i + 1] < 128
    THEN [used |-> i + 1, threw |-> FALSE,
          val |-> (result + (src[i + 1] % 128) * 2 ^ (7 * i)) % 2 ^ bits]
  ELSE VarReadLoop(src, i + 1,
                   (result + (src[i + 1] % 128) * 2 ^ (7 * i)) % 2 ^ bits,
                   bits, old)

\* a default-constructed T
RECURSIVE ADefault(_)
ADefaultMembers(ts) == [i \in 1..Len(ts) |-> ADefault(ts[i])]

ADefault(t) ==
  IF t.k \in {"int", "varuint"} THEN 0
  ELSE IF t.k = "tuple" THEN ADefaultMembers(t.of)
  ELSE IF t.k = "variant" THEN <<0, ADefault(t.of[1])>>
  ELSE <<>>

\* the objects a container or tuple hands to the Writer, with their types
AItems(t, v) ==
  IF t.k = "tuple" THEN [i \in 1..Len(v) |-> <<t.of[i], v[i]>>]
  ELSE <<<<TVarUint(64), Len(v)>>>> \o [i \in 1..Len(v) |-> <<t.of[1], v[i]>>]

RECURSIVE AGetSize(_, _)
RECURSIVE AItemsSize(_)
AItemsSize(items) ==
  IF items = <<>> THEN 0
  ELSE AGetSize(items[1][1], items[1][2]) + AItemsSize(Tail(items))

AGetSize(t, v) ==
  IF t.k = "int" THEN t.n
  ELSE IF t.k = "varuint" THEN VarUintGetSize(v)
  ELSE IF t.k = "bytes" THEN get_size(v)
  ELSE IF t.k = "mono" THEN 0
  ELSE IF t.k = "variant" THEN 1 + AGetSize(t.of[v[1] + 1], v[2])
  ELSE AItemsSize(AItems(t, v))

RECURSIVE AWrite(_, _, _)
RECURSIVE AWriterRun(_, _, _)
\* Writer::write returned r for the first of items
AWriterStep(items, remaining, done, r) ==
  IF r.ret > remaining
    THEN [ret |-> Len(done) + r.ret, bytes |-> done \o r.bytes]
  ELSE AWriterRun(Tail(items), remaining - r.ret, done \o r.bytes)

AWriterRun(items, remaining, done) ==
  IF items = <<>> THEN [ret |-> Len(done), bytes |-> done]
  ELSE AWriterStep(items, remaining, done,
                   AWrite(items[1][1], remaining, items[1][2]))

\* a write that tests the size first and stores bytes when they fit
AWriteAll(size, required, bytes) ==
  [ret |-> required, bytes |-> IF size < required THEN <<>> ELSE bytes]

AWriteVariant(t, size, v, needed) ==
  IF size < needed THEN [ret |-> needed, bytes |-> <<>>]
  ELSE [ret |-> needed,
        bytes |-> <<v[1]>> \o AWrite(t.of[v[1] + 1], size - 1, v[2]).bytes]

AWrite(t, size, v) ==
  IF t.k = "int" THEN AWriteAll(size, t.n, BigEndian(v, t.n))
  ELSE IF t.k = "varuint" THEN AWriteAll(size, VarUintGetSize(v), VarUintBytes(v))
  ELSE IF t.k = "bytes" THEN AWriteAll(size, get_size(v), SerBytes(v))
  ELSE IF t.k = "mono" THEN [ret |-> 0, bytes |-> <<>>]
  ELSE IF t.k = "variant" THEN AWriteVariant(t, size, v, AGetSize(t, v))
  ELSE AWriterRun(AItems(t, v), size, <<>>)

\* serializer<VarUint<uint64_t>>::read into a VarUint whose value was old
AVarUint64Read(lv, size, old) ==
  IF lv.threw THEN [used |-> 0, threw |-> TRUE, val |-> old]
  ELSE IF lv.used > size THEN [used |-> lv.used, threw |-> FALSE, val |-> old]
  ELSE lv

\* std::set::insert into the elements in iteration order
ASetInsert(cont, e) ==
  IF \E i \in 1..Len(cont) : cont[i] = e THEN cont
  ELSE SelectSeq(cont, LAMBDA x : x < e) \o <<e>>
         \o SelectSeq(cont, LAMBDA x : x > e)

\* the container once an element was read whole, and when its read stopped
AInsert(t, cont, e) ==
  IF t.k = "vector" THEN Append(cont, e) ELSE ASetInsert(cont, e)

AStopped(t, cont, e) ==
  IF t.k = "vector" THEN Append(cont, e) ELSE cont

RECURSIVE ARead(_, _, _)
RECURSIVE AReaderRun(_, _, _, _, _)
RECURSIVE AElemsRun(_, _, _, _, _)

\* Reader::read returned r for member i of the tuple or composite
AReaderStep(ts, src, pos, vals, i, r) ==
  IF r.threw
    THEN [used |-> 0, threw |-> TRUE, val |-> [vals EXCEPT ![i] = r.val]]
  ELSE IF r.used > Len(src) - pos
    THEN [used |-> pos + r.used, threw |-> FALSE,
          val |-> [vals EXCEPT ![i] = r.val]]
  ELSE AReaderRun(ts, src, pos + r.used, [vals EXCEPT ![i] = r.val], i + 1)

\* read_members through the member references
AReaderRun(ts, src, pos, vals, i) ==
  IF i > Len(ts) THEN [used |-> pos, threw |-> FALSE, val |-> vals]
  ELSE AReaderStep(ts, src, pos, vals, i,
                   ARead(ts[i], SubSeq(src, pos + 1, Len(src)), vals[i]))

\* Reader::read returned r for the next element of the container
AElemsStep(t, src, pos, cont, left, r) ==
  IF r.threw
    THEN [used |-> 0, threw |-> TRUE, val |-> AStopped(t, cont, r.val)]
  ELSE IF r.used > Len(src) - pos
    THEN [used |-> pos + r.used, threw |-> FALSE,
          val |-> AStopped(t, cont, r.val)]
  ELSE AElemsRun(t, src, pos + r.used, AInsert(t, cont, r.val), left - 1)

AElemsRun(t, src, pos, cont, left) ==
  IF left = 0 THEN [used |-> pos, threw |-> FALSE, val |-> cont]
  ELSE AElemsStep(t, src, pos, cont, left,
                  ARead(t.of[1], SubSeq(src, pos + 1, Len(src)),
                        ADefault(t.of[1])))

\* DynamicPushBackSerializer::read and DynamicAssociativeSerializer::read
\* once the length was read as lv
AReadContainer(t, src, old, lv) ==
  IF lv.threw THEN [used |-> 0, threw |-> TRUE, val |-> old]
  ELSE IF lv.used > Len(src)
    THEN [used |-> lv.used, threw |-> FALSE, val |-> old]
  ELSE IF lv.val > MAX_AUTOSER_ITEMS
    THEN [used |-> 0, threw |-> TRUE, val |-> old]
  ELSE AElemsRun(t, src, lv.used, <<>>, lv.val)

\* variant_reader<I> for the alternative index, whose read returned r
AVariantReader(index, old, size, r) ==
  IF r.threw THEN [used |-> 0, threw |-> TRUE, val |-> old]
  ELSE [used |-> 1 + r.used, threw |-> FALSE,
        val |-> IF r.used <= size THEN <<index, r.val>>
                ELSE old]

AReadVariant(t, src, old) ==
  IF Len(src) < 1 THEN [used |-> 1, threw |-> FALSE, val |-> old]
  ELSE IF src[1] >= Len(t.of) THEN [used |-> 0, threw |-> TRUE, val |-> old]
  ELSE AVariantReader(src[1], old, Len(src) - 1,
                      ARead(t.of[src[1] + 1], Tail(src),
                            ADefault(t.of[src[1] + 1])))

AReadInt(n, src, old) ==
  IF Len(src) < n THEN [used |-> n, threw |-> FALSE, val |-> old]
  ELSE [used |-> n, threw |-> FALSE, val |-> FromBigEndian(src, n)]

ARead(t, src, old) ==
  IF t.k = "int" THEN AReadInt(t.n, src, old)
  ELSE IF t.k = "varuint" THEN
    IF t.n = 64 THEN AVarUint64Read(VarUintRead(src), Len(src), old)
    ELSE VarReadLoop(src, 0, 0, t.n, old)
  ELSE IF t.k = "bytes" THEN SerRead(src, old)
  ELSE IF t.k = "mono" THEN [used |-> 0, threw |-> FALSE, val |-> old]
  ELSE IF t.k = "variant" THEN AReadVariant(t, src, old)
  ELSE IF t.k = "tuple" THEN AReaderRun(t.of, src, 0, old, 1)
  ELSE AReadContainer(t, src, old, VarUintRead(src))

(***************************************************************************)
(* Calls of the serializers of autoser.h on their own: ps.w is the last    *)
(* write (into a buffer of avail bytes that held bytes 0xEE), ps.r the     *)
(* last read (back: of the buffer that write filled).                      *)
(***************************************************************************)
ATuple == TTuple(<<TInt(1), TBytes, TInt(2)>>)

AVariant == TVariant(<<TMono, TInt(2), TBytes>>)

ATypes == {TInt(1), TInt(2), TVarUint(8), TVarUint(16), TBytes,
           TVector(TInt(2)), TSet(TInt(1)), ATuple, AVariant}

RECURSIVE AVals(_)
RECURSIVE AMemberVals(_)
RECURSIVE AAlternativeVals(_, _)
AAlternativeVals(ts, i) ==
  IF i > Len(ts) THEN {}
  ELSE {<<i - 1, x>> : x \in AVals(ts[i])}
         \cup AAlternativeVals(ts, i + 1)

AMemberVals(ts) ==
  IF ts = <<>> THEN {<<>>}
  ELSE {<<a>> \o rest : a \in AVals(ts[1]), rest \in AMemberVals(Tail(ts))}

AVals(t) ==
  IF t.k = "int" THEN (IF t.n = 1 THEN {0, 7, 255} ELSE {0, 258, 65535})
  ELSE IF t.k = "varuint"
    THEN (IF t.n = 8 THEN {0, 127, 128, 255}
          ELSE {0, 127, 128, 16383, 16384, 65535})
  ELSE IF t.k = "bytes" THEN {<<>>, <<7>>, <<7, 8>>}
  ELSE IF t.k = "mono" THEN {<<>>}
  ELSE IF t.k = "vector"
    THEN {<<>>} \cup {<<a>> : a \in AVals(t.of[1])}
           \cup {<<a, b>> : a \in AVals(t.of[1]), b \in AVals(t.of[1])}
  ELSE IF t.k = "set"
    THEN {<<>>} \cup {<<a>> : a \in AVals(t.of[1])}
           \cup {x \in {<<a, b>> : a \in AVals(t.of[1]), b \in AVals(t.of[1])} :
                   x[1] < x[2]}
  ELSE IF t.k = "tuple" THEN AMemberVals(t.of)
  ELSE AAlternativeVals(t.of, 1)

\* the buffer of avail bytes after a write stored bytes from dest[0] on
ADest(avail, bytes) ==
  bytes \o [i \in 1..(avail - Len(bytes)) |-> 238]

Prefixes(s) == {SubSeq(s, 1, n) : n \in 0..Len(s)}

VarUintSrcBytes == {0, 1, 3, 4, 127, 128, 255}

VarUintSrcs ==
  UNION {[1..n -> VarUintSrcBytes] : n \in 0..4}
    \cup {<<128, 128, 128, 128, 0>>, <<129, 128, 128, 128, 128, 1>>,
          <<255, 255, 3, 0, 0>>, <<128, 128, 128, 128, 128>>}

\* inputs of a read: every prefix of every encoding, and inputs no write
\* produces
ASrcs(t) ==
  UNION {Prefixes(AWrite(t, AGetSize(t, v), v).bytes) : v \in AVals(t)}
    \cup (IF t.k = "varuint" THEN VarUintSrcs
          ELSE IF t.k = "variant" THEN {<<3>>, <<3, 0, 0>>, <<1, 1>>}
          ELSE IF t.k \in {"vector", "set"}
            THEN {<<2, 7>>, <<129, 128, 128, 128, 1>>, <<2, 1, 2, 1, 2>>,
                  <<2, 0, 7, 0, 7>>, <<2, 7, 7>>, <<2, 9, 7>>}
          ELSE {})

\* a call to make: a write of v into avail bytes, then a read of that buffer
\* into a value that was old; or a read of src into a value that was old
InitAuto ==
  /\ \E t \in ATypes :
       \/ \E v \in AVals(t), old \in AVals(t) :
            \E avail \in 0..(AGetSize(t, v) + 1) :
              ps = [op |-> "write", t |-> t, v |-> v, avail |-> avail,
                    src |-> <<>>, old |-> old, w |-> NoCall, r |-> NoCall]
       \/ \E src \in ASrcs(t), old \in AVals(t) :
            ps = [op |-> "read", t |-> t, v |-> old, avail |-> Len(src),
                  src |-> src, old |-> old, w |-> NoCall, r |-> NoCall]
  /\ files = EmptyMap /\ alive = FALSE
  /\ objects = EmptyMap /\ events = NoFile /\ buffer = <<>>
  /\ bufSize = 0 /\ readOffset = 0 /\ time = 0 /\ loaded = FALSE
  /\ last = [op |-> "init", mode |-> -1, res |-> "ok"]
  /\ before = EmptyMap
  /\ tasks = {} /\ child = NoChild /\ faults = 0 /\ dirty = {}
  /\ calls = 0 /\ sessions = 0

\* serializer<T>::write(dest, avail, v)
AutoWrite ==
  /\ ps.op = "write" /\ ~ps.w.done
  /\ ps' = [ps EXCEPT !.w = [done |-> TRUE,
                              res |-> AWrite(ps.t, ps.avail, ps.v)]]
  /\ UNCHANGED svars

\* serializer<T>::read(dest, avail, old) of the buffer the write filled
AutoReadBack ==
  /\ ps.w.done /\ ~ps.r.done
  /\ ps.w.res.ret <= ps.avail
  /\ ps' = [ps EXCEPT !.src = ADest(ps.avail, ps.w.res.bytes),
                       !.r = [done |-> TRUE,
                              res |-> ARead(ps.t, ADest(ps.avail, ps.w.res.bytes),
                                            ps.old)]]
  /\ UNCHANGED svars

\* serializer<T>::read(src, Len(src), old)
AutoRead ==
  /\ ps.op = "read" /\ ~ps.r.done
  /\ ps' = [ps EXCEPT !.r = [done |-> TRUE,
                              res |-> ARead(ps.t, ps.src, ps.old)]]
  /\ UNCHANGED svars

NextAuto ==
  \/ AutoWrite
  \/ AutoReadBack
  \/ AutoRead

SpecAuto == InitAuto /\ [][NextAuto]_vars

\* C21: written into a buffer of exactly get_size(v) bytes, v is read back
\* equal, and write and read both return get_size(v).
C21_RoundTrip ==
  (ps.op = "write" /\ ps.w.done /\ ps.avail = AGetSize(ps.t, ps.v)) =>
     /\ ps.w.res.ret = AGetSize(ps.t, ps.v)
     /\ ps.r.done =>
          /\ ~ps.r.res.threw
          /\ ps.r.res.val = ps.v
          /\ ps.r.res.used = AGetSize(ps.t, ps.v)

C21_Witness ==
  /\ ps.op = "write" /\ ps.w.done /\ ps.r.done
  /\ ps.t = AVariant /\ ps.v = <<2, <<7, 8>>>>
  /\ ps.avail = 4
  /\ ps.old = <<1, 258>>
  /\ ps.r.res.val = ps.v

\* C22: write returns get_size(v) whatever the room, also when the room is
\* less than get_size(v).
C22_WriteReturnsSize ==
  (ps.op = "write" /\ ps.w.done) => ps.w.res.ret = AGetSize(ps.t, ps.v)

\* C23: with less room than needed, write stores nothing in dest and read
\* leaves the destination value as it was.
C23_NothingOnInsufficient ==
  /\ (ps.op = "write" /\ ps.w.done /\ ps.w.res.ret > ps.avail)
        => ps.w.res.bytes = <<>>
  /\ (ps.r.done /\ ~ps.r.res.threw /\ ps.r.res.used > Len(ps.src))
        => ps.r.res.val = ps.old

\* the position of the first byte without continuation bit, 0 if none
RefVarEnd(src) ==
  IF \E i \in 1..Len(src) : src[i] < 128
    THEN SetMin({i \in 1..Len(src) : src[i] < 128})
  ELSE 0

\* the number the first n bytes denote, 7 bits a byte, low bits first; every
\* number above 2^20 is kept as 2^20
RECURSIVE RefVarValue(_, _)
RefVarValue(src, n) ==
  IF n = 0 THEN 0
  ELSE Min(1048576, (src[1] % 128) + 128 * RefVarValue(Tail(src), n - 1))

\* what the input denotes is more than (bits + 6) / 7 bytes long or more
\* than the largest value of the type
RefVarOverflow(src, n, bits) ==
  /\ n > 0
  /\ \/ n > (bits + 6) \div 7
     \/ RefVarValue(src, n) > 2 ^ bits - 1

\* C24: VarUint<U>::read raises when the encoding that the input holds is
\* longer than (bits(U) + 6) / 7 bytes or denotes more than max(U); a value
\* it stores is the value the bytes denote, never its low bits.
C24_VarUintOverflow ==
  (ps.op = "read" /\ ps.r.done /\ ps.t.k = "varuint") =>
     /\ RefVarOverflow(ps.src, RefVarEnd(ps.src), ps.t.n) => ps.r.res.threw
     /\ (~ps.r.res.threw /\ ps.r.res.used <= Len(ps.src)) =>
          /\ ps.r.res.used = RefVarEnd(ps.src)
          /\ ps.r.res.val = RefVarValue(ps.src, ps.r.res.used)
     /\ (ps.r.res.threw \/ ps.r.res.used > Len(ps.src)) =>
          ps.r.res.val = ps.old

C24_Witness ==
  /\ ps.op = "read" /\ ps.r.done
  /\ ps.t = TVarUint(8) /\ ps.src = <<255, 3>> /\ ps.old = 127
  /\ ps.r.res.threw /\ ps.r.res.val = 127

(***************************************************************************)
(* writeFrame and readFrame on their own. A frame of payloadSize bytes is  *)
(* too long to hold for the largest sizes, so the length field is also     *)
(* modelled by itself: the control byte and the extra bytes of the header, *)
(* without checksum and payload.                                           *)
(***************************************************************************)
\* the control byte and the extra size bytes writeFrame puts in headerBuf
writeFrameSize(payloadSize, isCRC32) ==
  LET extra == payloadSize \div 32
      nExtra == IF extra = 0 THEN 0
                ELSE IF extra <= 255 THEN 1
                ELSE IF extra <= 65535 THEN 2 ELSE 3
  IN <<(payloadSize % 32) + (IF isCRC32 THEN 32 ELSE 0) + 64 * nExtra>>
       \o ToLittleEndian(extra, nExtra)

\* payloadSize as readFrame takes it from the control byte and headerBuf
readFrameSize(header) ==
  LET control == header[1]
      extraLenBytes == (control \div 64) % 4
  IN (control % 32) + 32 * LittleEndian(SubSeq(header, 2, 1 + extraLenBytes))

\* one bit of byte at of the file inverted
FlipBit(file, at, bit) == [file EXCEPT ![at] = xor8[@][2 ^ bit]]

FrameSizes ==
  (1..64) \cup {255, 256, 257, 8191, 8192, 8193, 2097151, 2097152, 2097153,
               MaxBufferSize - 1, MaxBufferSize}

FramePayloads ==
  {<<0>>, <<7>>, <<255>>, <<1, 2>>, <<0, 0, 0>>, <<7, 8, 9, 10>>,
   <<49, 50, 51, 52, 53, 54, 55, 56, 57>>}

\* the bytes of the frame that hold its checksum and its payload
FrameFlipAts(payload, force) ==
  (Len(FrameBytes(payload, force)) - Len(payload) - (IF force THEN 4 ELSE 2) + 1)
    ..Len(FrameBytes(payload, force))

\* the reading store: an empty buffer of 4 bytes
FrameReader == [buffer |-> <<>>, bufSize |-> 4, readOffset |-> 0]

InitFrame ==
  /\ \E force \in BOOLEAN :
       \/ \E size \in FrameSizes :
            ps = [op |-> "size", size |-> size, force |-> force,
                  payload |-> <<>>, at |-> 0, bit |-> 0, file |-> <<>>,
                  pc |-> "new", flipped |-> FALSE, read |-> 0, rr |-> RR_Success]
       \/ \E payload \in FramePayloads :
            ps = [op |-> "frame", size |-> Len(payload), force |-> force,
                  payload |-> payload, at |-> 0, bit |-> 0, file |-> <<>>,
                  pc |-> "new", flipped |-> FALSE, read |-> 0,
                  rr |-> RR_Success]
  /\ files = EmptyMap /\ alive = FALSE
  /\ objects = EmptyMap /\ events = NoFile /\ buffer = <<>>
  /\ bufSize = 0 /\ readOffset = 0 /\ time = 0 /\ loaded = FALSE
  /\ last = [op |-> "init", mode |-> -1, res |-> "ok"]
  /\ before = EmptyMap
  /\ tasks = {} /\ child = NoChild /\ faults = 0 /\ dirty = {}
  /\ calls = 0 /\ sessions = 0

\* writeFrame of a buffer that holds size bytes: the length field alone
FrameWriteSize ==
  /\ ps.op = "size" /\ ps.pc = "new"
  /\ ps' = [ps EXCEPT !.pc = "written",
                       !.file = writeFrameSize(ps.size,
                                  ps.force \/ ps.size >= MinCRC32PayloadSize)]
  /\ UNCHANGED svars

\* readFrame up to payloadSize
FrameReadSize ==
  /\ ps.op = "size" /\ ps.pc = "written"
  /\ ps' = [ps EXCEPT !.pc = "read", !.read = readFrameSize(ps.file)]
  /\ UNCHANGED svars

\* writeFrame of the payload
FrameWrite ==
  /\ ps.op = "frame" /\ ps.pc = "new"
  /\ ps' = [ps EXCEPT !.pc = "written",
                       !.file = FrameBytes(ps.payload, ps.force)]
  /\ UNCHANGED svars

\* the file is damaged: bit bit of byte at, a byte of the checksum or of
\* the payload, flips
FrameFlip(at, bit) ==
  /\ ps.op = "frame" /\ ps.pc = "written" /\ ~ps.flipped
  /\ at \in FrameFlipAts(ps.payload, ps.force)
  /\ ps' = [ps EXCEPT !.flipped = TRUE, !.at = at, !.bit = bit,
                       !.file = FlipBit(ps.file, at, bit)]
  /\ UNCHANGED svars

\* readFrame at the start of the file
FrameRead ==
  /\ ps.op = "frame" /\ ps.pc = "written"
  /\ ps' = [ps EXCEPT !.pc = "read",
                       !.rr = readFrame(FrameReader, ps.file, 0).rr,
                       !.read = Len(readFrame(FrameReader, ps.file, 0).m.buffer)]
  /\ UNCHANGED svars

NextFrame ==
  \/ FrameWriteSize
  \/ FrameReadSize
  \/ FrameWrite
  \/ \E at \in 1..Len(ps.file), bit \in 0..7 : FrameFlip(at, bit)
  \/ FrameRead

SpecFrame == InitFrame /\ [][NextFrame]_vars

\* C25: the payload length that readFrame takes from a header is the
\* length writeFrame put there, for every length from 1 to 2^29.
C25_HeaderRoundTrip ==
  (ps.op = "size" /\ ps.pc = "read") => ps.read = ps.size

\* C28: a frame with one bit of its payload or of its checksum inverted is
\* rejected by readFrame, under CRC16 and under CRC32.
C28_BitFlipRejected ==
  (ps.op = "frame" /\ ps.pc = "read") =>
     IF ps.flipped THEN ps.rr # RR_Success
     ELSE ps.rr = RR_Success /\ ps.read = Len(ps.payload)

C28_Witness ==
  /\ ps.op = "frame" /\ ps.pc = "read" /\ ps.flipped
  /\ ps.force /\ ps.payload = <<7, 8, 9, 10>>
  /\ ps.at = 9 /\ ps.bit = 7
  /\ ps.rr = RR_Frame_Corrupted

(***************************************************************************)
(* setDirectory with StoreFlags::deleteData on a directory that exists.    *)
(* ps.dir is the directory as the file system has it: a set of entries     *)
(* [stem, ext, type, content], the stem a sequence of characters. files    *)
(* is what load() makes of it: the regular files it takes for snapshots    *)
(* and event files, under the names of their generations. ps.log is the    *)
(* sequence of the calls made so far, ps.k and ps.v the arguments of the   *)
(* last update.                                                            *)
(***************************************************************************)
isdigit(c) == c \in {"0", "1", "2", "3", "4", "5", "6", "7", "8", "9"}

\* std::all_of(stem.begin(), stem.end(), ::isdigit)
AllDigits(stem) == \A i \in 1..Len(stem) : isdigit(stem[i])

\* a removal that looks at the extension only
DeleteDataByExtension(e) ==
  e.type = "file" /\ e.ext \in {"events", "snapshot"}

\* the test setDirectory makes before std::filesystem::remove(path)
DeleteDataMatch(e) ==
  /\ e.type = "file"
  /\ e.ext \in {"events", "snapshot"}
  /\ AllDigits(e.stem)

\* the test load() makes of an entry when it looks for files of extension ext
LoadMatch(e, ext) ==
  /\ e.type = "file"
  /\ e.ext = ext
  /\ AllDigits(e.stem)

DigitValue(c) ==
  CHOOSE n \in 0..9 : <<"0", "1", "2", "3", "4", "5", "6", "7", "8", "9">>[n + 1] = c

RECURSIVE stoull(_)
stoull(stem) ==
  IF stem = <<>> THEN 0
  ELSE 10 * stoull(SubSeq(stem, 1, Len(stem) - 1)) + DigitValue(stem[Len(stem)])

\* the files load() finds in the directory, by kind and generation
DirView(dir) ==
  [n \in {<<e.ext, stoull(e.stem)>> :
            e \in {x \in dir : LoadMatch(x, "snapshot") \/ LoadMatch(x, "events")}}
     |-> (CHOOSE e \in dir : /\ LoadMatch(e, n[1])
                            /\ stoull(e.stem) = n[2]).content]

\* setDirectory once the data files are removed and rest is left
setDirectoryLoad(rest, bufferSize) ==
  [dir |-> rest,
   l |-> load([Fresh(bufferSize, NoFault) EXCEPT !.files = DirView(rest)])]

\* setDirectory(dir) with deleteData, dir being a directory
setDirectoryDelete(dir, bufferSize) ==
  setDirectoryLoad({e \in dir : ~DeleteDataMatch(e)}, bufferSize)

DelFrame == FrameBytes(SerBytes(<<1>>) \o SerBytes(<<7>>), forceCRC32)

DelEntries ==
  {[stem |-> <<"0", "1">>, ext |-> "snapshot", type |-> "file", content |-> DelFrame],
   [stem |-> <<"0", "1">>, ext |-> "events", type |-> "file", content |-> DelFrame],
   [stem |-> <<"0">>, ext |-> "events", type |-> "file", content |-> <<>>],
   [stem |-> <<"7">>, ext |-> "snapshot", type |-> "file", content |-> <<115>>],
   [stem |-> <<"o">>, ext |-> "txt", type |-> "file", content |-> <<111>>],
   [stem |-> <<"n", "o", "1">>, ext |-> "snapshot", type |-> "file", content |-> <<110>>],
   [stem |-> <<"1", "2", "3">>, ext |-> "txt", type |-> "file", content |-> <<120>>],
   [stem |-> <<"2", "x">>, ext |-> "events", type |-> "file", content |-> DelFrame],
   [stem |-> <<"t", "m", "p", "1">>, ext |-> "", type |-> "file", content |-> DelFrame],
   [stem |-> <<"2">>, ext |-> "snapshot", type |-> "dir", content |-> <<>>]}

InitDelete ==
  /\ \E dir \in SUBSET DelEntries :
       ps = [dir |-> dir, was |-> dir, opened |-> FALSE,
             log |-> <<>>, k |-> <<>>, v |-> <<>>]
  /\ files = EmptyMap /\ alive = FALSE
  /\ objects = EmptyMap /\ events = NoFile /\ buffer = <<>>
  /\ bufSize = 0 /\ readOffset = 0 /\ time = 0 /\ loaded = FALSE
  /\ last = [op |-> "init", mode |-> -1, res |-> "ok"]
  /\ before = EmptyMap
  /\ tasks = {} /\ child = NoChild /\ faults = 0 /\ dirty = {}
  /\ calls = 0 /\ sessions = 0

\* the end of the constructor, setDirectory having returned r
OpenedDelete(r) ==
  /\ ps' = [ps EXCEPT !.dir = r.dir, !.opened = TRUE, !.log = <<"open">>]
  /\ files' = r.l.m.files
  /\ before' = files
  /\ last' = [op |-> "open", mode |-> -1,
              res |-> IF r.l.m.exc # NoExc THEN "throw"
                      ELSE IF r.l.ret THEN "ok" ELSE "false"]
  /\ IF r.l.m.exc # NoExc THEN alive' = FALSE /\ Forget
     ELSE alive' = TRUE /\ Keep(r.l.m) /\ dirty' = {} /\ tasks' = tasks

\* Store(dir, StoreFlags::deleteData, bufferSize)
OpenDelete(bufferSize) ==
  /\ ~alive /\ ~ps.opened
  /\ sessions' = sessions + 1
  /\ OpenedDelete(setDirectoryDelete(ps.dir, bufferSize))
  /\ UNCHANGED <<calls, child, faults>>

\* the end of a call that left the store in m, no fault injected
DeleteReturn(op, mode, m) ==
  /\ files' = m.files
  /\ before' = files
  /\ last' = [op |-> op, mode |-> mode, res |-> Result(NoFault, m)]
  /\ alive' = TRUE
  /\ Keep(m)
  /\ dirty' = {} /\ tasks' = tasks
  /\ calls' = calls + 1
  /\ UNCHANGED <<sessions, child, faults>>

\* objs.update(k, v), the first call on the store just opened
DeleteUpdate(key, value) ==
  /\ alive /\ ps.log = <<"open">>
  /\ ps' = [ps EXCEPT !.log = Append(@, "update"), !.k = key, !.v = value]
  /\ DeleteReturn("update", -1, update(Cur(NoFault), key, value))

\* objs.save()
DeleteSave ==
  /\ alive /\ ps.log \in {<<"open">>, <<"open", "update">>}
  /\ ps' = [ps EXCEPT !.log = Append(@, "save")]
  /\ DeleteReturn("save", syncSave, save(Cur(NoFault), syncSave).m)

\* ~Store() at the end of the block
DeleteClose ==
  /\ alive /\ Len(ps.log) <= 3
  /\ ps' = [ps EXCEPT !.log = Append(@, "close")]
  /\ alive' = FALSE
  /\ events' = NoFile /\ buffer' = <<>> /\ readOffset' = 0 /\ bufSize' = 0
  /\ time' = 0 /\ loaded' = FALSE
  /\ before' = files
  /\ last' = [op |-> "destroy", mode |-> -1,
              res |-> IF buffer = <<>> /\ dirty = {} THEN "ok" ELSE "lost"]
  /\ UNCHANGED <<files, objects, tasks, child, faults, dirty, calls, sessions>>

\* the constructor's load() left the store in m and returned ret
DeleteReopened(m, ret) ==
  /\ files' = m.files
  /\ before' = files
  /\ last' = [op |-> "open", mode |-> -1,
              res |-> IF m.exc # NoExc THEN Result(NoFault, m)
                      ELSE IF ret THEN "ok" ELSE "false"]
  /\ IF m.exc # NoExc THEN alive' = FALSE /\ Forget
     ELSE alive' = TRUE /\ Keep(m) /\ dirty' = {} /\ tasks' = tasks

\* Store objs2(dirStr): the directory opened again, nothing deleted
DeleteReopen(bufferSize) ==
  /\ ~alive /\ ps.opened /\ ps.log[Len(ps.log)] = "close"
  /\ ps' = [ps EXCEPT !.log = Append(@, "open")]
  /\ sessions' = sessions + 1
  /\ DeleteReopened(load(Fresh(bufferSize, NoFault)).m,
                    load(Fresh(bufferSize, NoFault)).ret)
  /\ UNCHANGED <<calls, child, faults>>

NextDelete ==
  \/ \E b \in BufSizes : OpenDelete(b)
  \/ \E k \in Keys, v \in Vals : DeleteUpdate(k, v)
  \/ DeleteSave
  \/ DeleteClose
  \/ \E b \in BufSizes : DeleteReopen(b)

SpecDelete == InitDelete /\ [][NextDelete]_vars

\* a regular file named <digits>.events or <digits>.snapshot
RefDataFile(e) ==
  /\ e.type = "file"
  /\ e.ext \in {"events", "snapshot"}
  /\ \A i \in 1..Len(e.stem) : e.stem[i] \in {"0", "1", "2", "3", "4", "5", "6", "7", "8", "9"}

\* C26: opening an existing directory with deleteData removes exactly the
\* regular files named <digits>.events and <digits>.snapshot and leaves the
\* store loaded, its map empty, at generation 0 (with the event file of
\* generation 0 it opens).
C26_DeleteData ==
  [][(~ps.opened /\ ps'.opened)
       => /\ ps'.dir = {e \in ps.dir : ~RefDataFile(e)}
          /\ alive' /\ loaded' /\ last'.res = "ok"
          /\ objects' = EmptyMap /\ time' = 0
          /\ files' = (EventsName(0) :> <<>>)
          /\ events' = EventsName(0)]_vars

C26_Witness ==
  /\ ps.opened /\ alive
  /\ ps.was = DelEntries
  /\ Cardinality(ps.dir) = 6
  /\ time = 0 /\ objects = EmptyMap

(***************************************************************************)
(* C29: while the child of save(forkSave) has not yet published its        *)
(* snapshot, a directory that holds a mutation flushed after the save      *)
(* stands for the map as it was at the save, every mutation submitted      *)
(* before it included, with the mutations flushed since applied to it.     *)
(***************************************************************************)
C29_ForkSavePrefix ==
  (/\ alive /\ child.phase = "snapshot" /\ child.snapshotTime = time
   /\ files[EventsName(time)] # <<>>)
    => RefLoad(files) = RefEvents(files, time, RefNonEmpty(child.objects))

(***************************************************************************)
(* C30: when update(k, v) has raised, the bytes logged to the open event   *)
(* file and not yet written (the payloads of its frames, then the buffer)  *)
(* are a whole number of (K,V) records, so that the record of a later      *)
(* update starts where a key is expected.                                  *)
(***************************************************************************)
C30_WholeAfterThrow ==
  (alive /\ last.op = "update" /\ last.res = "throw")
    => RefWhole(RefLog(Cur(NoFault)))

\* the store opened again after update(k, v) with a value that is not empty
\* and save(syncSave) on a directory that was empty
RefHelloReopened ==
  /\ ps.log = <<"open", "update", "save", "close", "open">>
  /\ ps.was = {} /\ ps.v # emptyValue

(***************************************************************************)
(* C27 as stated: after update(k, v) and save(syncSave) on a fresh         *)
(* directory and a re-open, find(k) returns v, the generation is 1 and the *)
(* directory holds exactly one .snapshot file and no .events file.         *)
(***************************************************************************)
C27_HelloNoEvents ==
  RefHelloReopened
    => /\ alive /\ ps.k \in DOMAIN objects /\ objects[ps.k] = ps.v
       /\ time = 1
       /\ Cardinality(RefGens(files, "snapshot")) = 1
       /\ RefGens(files, "events") = {}

(***************************************************************************)
(* C27, amended: after update(k, v) and save(syncSave) on a fresh          *)
(* directory and a re-open, find(k) returns v, the map holds nothing else, *)
(* the generation is 1 and the directory holds exactly two files: the      *)
(* snapshot of generation 1 and the event file of generation 1, which is   *)
(* empty and open for append.                                              *)
(***************************************************************************)
C27_HelloRoundTrip ==
  RefHelloReopened
    => /\ alive /\ last.res = "ok" /\ objects = (ps.k :> ps.v)
       /\ time = 1
       /\ ps.dir = {}
       /\ DOMAIN files = {SnapshotName(1), EventsName(1)}
       /\ files[EventsName(1)] = <<>>
       /\ events = EventsName(1)

C27_Witness ==
  /\ RefHelloReopened
  /\ alive /\ objects = (<<2>> :> <<7>>)
  /\ RefApply(EmptyMap, RefRecords(Concat(RefFrames(files[SnapshotName(1)], 0))))
       = (<<2>> :> <<7>>)

(***************************************************************************)
(* The live store with the calls that act on its buffer: load() called     *)
(* again on a store that is open, setBufferSize, and a constructor given   *)
(* any bufferSize.                                                         *)
(***************************************************************************)
\* the bufferSize arguments of the constructor
LiveBufSizes == BufSizes \cup {0, MaxBufferSize + 1}

\* the arguments of setBufferSize
LiveSizes == {0, 3, MaxBufferSize + 1}

\* load() on the store that is open: what it read in place is gone
Load ==
  /\ alive
  /\ Call
  /\ Return("load", -1, NoFault, load(Cur(NoFault)).m, load(Cur(NoFault)).ret,
            {}, tasks)
  /\ UNCHANGED child

SetBufferSize(size) ==
  /\ alive
  /\ UNCHANGED <<calls, sessions>>
  /\ Return("setBufferSize", size, NoFault, setBufferSize(Cur(NoFault), size),
            TRUE, dirty, tasks)
  /\ UNCHANGED child

NextLive ==
  \/ \E b \in LiveBufSizes : Open(b, NoFault)
  \/ \E k \in Keys, v \in Vals : Update(k, v, NoFault)
  \/ \E k \in Keys : Erase(k, NoFault)
  \/ \E k \in Keys : Persist(k, NoFault)
  \/ Flush(NoFault)
  \/ \E size \in LiveSizes : SetBufferSize(size)
  \/ Save(syncSave, NoFault)
  \/ Clear(NoFault)
  \/ Load
  \/ Destroy

SpecLive == Init /\ [][NextLive]_vars

(***************************************************************************)
(* C31: load() called on a store that is loaded, whose buffer holds no     *)
(* pending record and whose directory replays cleanly, leaves every file   *)
(* of the directory as it was and yields the same map and generation.      *)
(***************************************************************************)
C31_LoadIdempotent ==
  [][(/\ alive /\ last'.op = "load" /\ loaded /\ buffer = <<>> /\ dirty = {}
      /\ RefCleanDir(files) /\ RefChain(files))
       => /\ files' = files
          /\ alive' /\ last'.res = "ok"
          /\ objects' = RefNonEmpty(objects) /\ time' = time]_vars

(***************************************************************************)
(* C32: when load() has found the log corrupted (a gap in the generations  *)
(* or an event file that fails to replay) and returned false, the          *)
(* directory it leaves is one from which the next load(), by the same      *)
(* store or by a store constructed next, returns true and yields the same  *)
(* map.                                                                    *)
(***************************************************************************)
C32_CleanAfterCorruption ==
  (alive /\ last.op = "open" /\ last.res = "false")
    => /\ load(Fresh(bufSize, NoFault)).m.exc = NoExc
       /\ load(Fresh(bufSize, NoFault)).ret
       /\ load(Fresh(bufSize, NoFault)).m.objects = objects
       /\ load(Cur(NoFault)).m.exc = NoExc
       /\ load(Cur(NoFault)).ret
       /\ load(Cur(NoFault)).m.objects = objects

\* C32 witness: a store opened on a directory whose event file of
\* generation 1 replays and whose event file of generation 2 does not; it
\* holds what the first one set and has written a snapshot of it
C32_Witness ==
  /\ alive /\ last.op = "open" /\ last.res = "false"
  /\ RefBase(before) = 0
  /\ EventsName(1) \in DOMAIN before /\ RefClean(before[EventsName(1)])
  /\ EventsName(2) \in DOMAIN before /\ ~RefClean(before[EventsName(2)])
  /\ objects = (<<1>> :> <<7>>)
  /\ SnapshotName(time) \in DOMAIN files
  /\ EventsName(2) \notin DOMAIN files \/ files[EventsName(2)] = <<>>

(***************************************************************************)
(* C33: when the snapshot of the highest generation fails to replay,       *)
(* load() raises "corrupted snapshot": no file of the directory is         *)
(* removed, renamed, created or changed, no older snapshot is loaded in    *)
(* its place, and the store, which was not loaded, is not loaded after.    *)
(***************************************************************************)
C33_CorruptSnapshotFatal ==
  [][(/\ ~alive /\ last'.op = "open"
      /\ RefGens(files, "snapshot") # {}
      /\ ~RefClean(files[SnapshotName(RefBase(files))]))
       => /\ files' = files
          /\ last'.res = "throw" /\ ~alive' /\ ~loaded'
          /\ \A b \in BufSizes :
               /\ load(Fresh(b, NoFault)).m.exc = "corrupted snapshot"
               /\ ~load(Fresh(b, NoFault)).m.loaded
               /\ load(Fresh(b, NoFault)).m.files = files
               /\ load(Fresh(b, NoFault)).m.events = NoFile]_vars

\* C33 witness: the constructor has raised on a directory whose snapshot of
\* generation 2 is cut short, beside a snapshot of generation 1 and an
\* event file that both replay and hold a record
C33_Witness ==
  /\ ~alive /\ last.op = "open" /\ last.res = "throw"
  /\ RefBase(files) = 2 /\ ~RefClean(files[SnapshotName(2)])
  /\ SnapshotName(1) \in DOMAIN files /\ RefClean(files[SnapshotName(1)])
  /\ RefRecords(Concat(RefFrames(files[SnapshotName(1)], 0))) # <<>>
  /\ EventsName(2) \in DOMAIN files
  /\ RefRecords(Concat(RefFrames(files[EventsName(2)], 0))) # <<>>
  /\ files = before

\* the stream of bytes logged to an event file: the payloads of its frames,
\* then the buffer
RefStream(file, buf) == Concat(RefFrames(file, 0)) \o buf

\* the bytes of the record (key, value)
RefRecord(key, value) == <<Len(key)>> \o key \o <<Len(value)>> \o value

C35_CleanupBelowItsSave ==
  [][(last'.op = "task")
       => \E keep \in tasks :
            /\ tasks' = tasks \ {keep}
            /\ DOMAIN files' \subseteq DOMAIN files
            /\ \A f \in DOMAIN files' : files'[f] = files[f]
            /\ \A f \in DOMAIN files \ DOMAIN files' :
                 f[1] \in {"events", "snapshot"} /\ f[2] < keep
            /\ \A g \in RefGens(files, "snapshot") :
                 g >= keep => SnapshotName(g) \in DOMAIN files'
            /\ SnapshotName(RefBase(files)) \in DOMAIN files
                 => SnapshotName(RefBase(files)) \in DOMAIN files'
            /\ alive => /\ time >= keep /\ events = EventsName(time)
                        /\ events \in DOMAIN files'
                        /\ SnapshotName(time) \in DOMAIN files
                             => SnapshotName(time) \in DOMAIN files']_vars

\* C35 witness: the cleanup of the first of two save(asyncClear) has run
\* after the second save and an update: it removed the event file of
\* generation 0 and left the snapshot of generation 1 to the second cleanup
C35_Witness ==
  /\ alive /\ last.op = "task" /\ time = 2 /\ tasks = {2}
  /\ buffer # <<>>
  /\ EventsName(0) \in DOMAIN before /\ EventsName(0) \notin DOMAIN files
  /\ SnapshotName(1) \in DOMAIN files /\ SnapshotName(2) \in DOMAIN files
  /\ EventsName(2) \in DOMAIN files

(***************************************************************************)
(* SpecMove: one store and two directories. files is the directory dir_    *)
(* names (ps.dir), ps.other the other one, ps.saved the cleanups of        *)
(* save(asyncClear) that have not run yet, each with the generation it     *)
(* keeps and the directory that was saved.                                 *)
(***************************************************************************)
MoveDirs == {1, 2}

OtherDir(d) == IF d = 1 THEN 2 ELSE 1

\* setDirectory(dir) on a store whose dir_ is another, existing directory
\* holding the files to: closeEventsFile(), dir_ = dir, load()
setDirectory(m, to) ==
  [from |-> closeEventsFile(m).files,
   l |-> load([closeEventsFile(m) EXCEPT !.files = to])]

InitMove ==
  /\ \E o \in {EmptyMap, EventsName(0) :> DelFrame} :
       ps = [dir |-> 1, other |-> o, saved |-> {}]
  /\ files = EmptyMap /\ alive = FALSE
  /\ objects = EmptyMap /\ events = NoFile /\ buffer = <<>>
  /\ bufSize = 0 /\ readOffset = 0 /\ time = 0 /\ loaded = FALSE
  /\ last = [op |-> "init", mode |-> -1, res |-> "ok"]
  /\ before = EmptyMap
  /\ tasks = {} /\ child = NoChild /\ faults = 0 /\ dirty = {}
  /\ calls = 0 /\ sessions = 0

\* the end of a call that left the store in m and the cleanups in saved
MoveReturn(op, mode, m, ret, saved) ==
  /\ files' = m.files
  /\ before' = files
  /\ last' = [op |-> op, mode |-> mode,
              res |-> IF Result(NoFault, m) = "ok" /\ ~ret THEN "false"
                      ELSE Result(NoFault, m)]
  /\ alive' = TRUE
  /\ Keep(m)
  /\ dirty' = {}
  /\ tasks' = {t[1] : t \in saved}
  /\ UNCHANGED <<child, faults>>

\* Store(dir, StoreFlags::none, bufferSize), dir one of the two directories
MoveOpen(d, bufferSize) ==
  /\ ~alive /\ sessions < MaxSessions
  /\ sessions' = sessions + 1 /\ UNCHANGED calls
  /\ ps' = [ps EXCEPT !.dir = d,
                      !.other = IF d = ps.dir THEN ps.other ELSE files]
  /\ MoveReturn("open", d,
        load([Fresh(bufferSize, NoFault) EXCEPT
                !.files = IF d = ps.dir THEN files ELSE ps.other]).m,
        load([Fresh(bufferSize, NoFault) EXCEPT
                !.files = IF d = ps.dir THEN files ELSE ps.other]).ret,
        ps.saved)

MoveUpdate(key, value) ==
  /\ alive /\ Call
  /\ UNCHANGED ps
  /\ MoveReturn("update", -1, update(Cur(NoFault), key, value), TRUE, ps.saved)

MoveFlush ==
  /\ alive /\ buffer # <<>>
  /\ UNCHANGED <<calls, sessions>>
  /\ UNCHANGED ps
  /\ MoveReturn("flush", -1, flush(Cur(NoFault), events), TRUE, ps.saved)

\* save(asyncClear): the cleanup is handed to a detached thread
MoveSave ==
  /\ alive /\ Call
  /\ ps' = [ps EXCEPT !.saved = @ \cup {<<time + 1, ps.dir>>}]
  /\ MoveReturn("save", asyncClear, save(Cur(NoFault), asyncClear).m, TRUE,
                ps.saved \cup {<<time + 1, ps.dir>>})

\* setDirectory(dir): nothing when dir is dir_ already
MoveSetDirectory(d) ==
  /\ alive /\ Call
  /\ IF d = ps.dir
       THEN /\ UNCHANGED ps
            /\ MoveReturn("setDirectory", d, Cur(NoFault), TRUE, ps.saved)
       ELSE /\ ps' = [ps EXCEPT !.dir = d,
                                !.other = setDirectory(Cur(NoFault), ps.other).from]
            /\ MoveReturn("setDirectory", d,
                  setDirectory(Cur(NoFault), ps.other).l.m,
                  setDirectory(Cur(NoFault), ps.other).l.ret, ps.saved)

MoveDestroy ==
  /\ Destroy
  /\ ps.saved # {} \/ sessions < MaxSessions

\* the detached thread of a save(asyncClear) runs
\* deleteOldSnapshotsAndEvents(keep) on the store it captured by pointer:
\* the directory it lists is dir_ as it is now. Once the store is destroyed
\* dir_ is a dangling string: the thread may list either directory, or fail
\* to list anything (target 0).
MoveTask(t, target) ==
  /\ t \in ps.saved
  /\ target = 0 \/ target \in MoveDirs
  /\ alive => target = ps.dir
  /\ files' = IF target = ps.dir
                THEN [x \in DOMAIN files \ ToDelete(files, t[1]) |-> files[x]]
              ELSE files
  /\ ps' = [ps EXCEPT
             !.saved = @ \ {t},
             !.other = IF target = OtherDir(ps.dir)
                         THEN [x \in DOMAIN @ \ ToDelete(@, t[1]) |-> @[x]]
                       ELSE @]
  /\ tasks' = {u[1] : u \in ps.saved \ {t}}
  /\ before' = files
  /\ last' = [op |-> "task", mode |-> target, res |-> "ok"]
  /\ UNCHANGED <<alive, mem, child, faults, dirty, calls, sessions>>

NextMove ==
  \/ \E d \in MoveDirs, b \in BufSizes : MoveOpen(d, b)
  \/ \E k \in Keys, v \in Vals : MoveUpdate(k, v)
  \/ MoveFlush
  \/ MoveSave
  \/ \E d \in MoveDirs : MoveSetDirectory(d)
  \/ MoveDestroy
  \/ \E t \in ps.saved, target \in {0} \cup MoveDirs : MoveTask(t, target)

SpecMove == InitMove /\ [][NextMove]_vars

\* the files of directory d
RefDirFiles(d, p, f) == IF p.dir = d THEN f ELSE p.other

(***************************************************************************)
(* C36: the cleanup of a save(asyncClear) leaves every directory other     *)
(* than the one that was saved as it is, whether setDirectory() has moved  *)
(* the store or the store was destroyed in between, and removes from the   *)
(* saved directory nothing but event and snapshot files of a generation    *)
(* below the one it keeps.                                                 *)
(***************************************************************************)
C36_CleanupInSavedDirectory ==
  [][(last'.op = "task")
       => \E t \in ps.saved \ ps'.saved :
            /\ RefDirFiles(OtherDir(t[2]), ps', files')
                 = RefDirFiles(OtherDir(t[2]), ps, files)
            /\ \A x \in DOMAIN RefDirFiles(t[2], ps, files) :
                 \/ /\ x \in DOMAIN RefDirFiles(t[2], ps', files')
                    /\ RefDirFiles(t[2], ps', files')[x]
                         = RefDirFiles(t[2], ps, files)[x]
                 \/ x[2] < t[1]]_vars

(***************************************************************************)
(* C37: a save() or clear() that succeeds moves the generation up by       *)
(* exactly one; update, erase, persist, flush and setBufferSize leave it   *)
(* as it is, whether they succeed or throw; and when a store goes away,    *)
(* opening the directory it leaves yields a generation that is not lower   *)
(* than the one it had.                                                    *)
(***************************************************************************)
C37_GenerationMonotonic ==
  [][/\ (alive /\ alive' /\ last'.op \in {"save", "clear"}
          /\ last'.res = "ok")
        => time' = time + 1
     /\ (alive /\ alive' /\ last'.op \in {"update", "erase", "persist",
                                           "flush", "setBufferSize"})
        => time' = time
     /\ (alive /\ ~alive')
        => \A b \in BufSizes :
             /\ load([Fresh(b, NoFault) EXCEPT !.files = files']).m.exc = NoExc
             /\ load([Fresh(b, NoFault) EXCEPT !.files = files']).m.time >= time
     /\ (~alive /\ alive' /\ last'.op = "open")
        => /\ time' >= RefBase(files)
           /\ \A g \in RefGens(files, "events") : time' >= g]_vars

\* C37 witness: a store that ran save() and clear() was destroyed at
\* generation 2, and the store that opened its directory reports 2
C37_Witness ==
  /\ alive /\ last.op = "open" /\ last.res = "ok" /\ sessions = 2
  /\ time = 2 /\ calls = 3
  /\ SnapshotName(2) \in DOMAIN files
  /\ EventsName(2) \in DOMAIN files

(***************************************************************************)
(* C38: the buffer of a store that is open holds at least one byte and at  *)
(* most MaxBufferSize bytes, whatever size the constructor was given and   *)
(* whatever was set, written and read since.                               *)
(***************************************************************************)
C38_BufferSizeInRange ==
  alive => bufSize >= 1 /\ bufSize <= MaxBufferSize

(***************************************************************************)
(* C39: on every store the constructor has built, buffer size 0 included,  *)
(* an update, an erase, a persist, a save and a clear come to an end: they *)
(* return or raise, and never loop for ever in writeObject.                *)
(***************************************************************************)
C39_WriteObjectTerminates ==
  alive =>
    /\ \A k \in Keys, v \in Vals : update(Cur(NoFault), k, v).exc # "hang"
    /\ \A k \in Keys : /\ erase(Cur(NoFault), k).exc # "hang"
                       /\ persist(Cur(NoFault), k).exc # "hang"
    /\ save(Cur(NoFault), syncSave).m.exc # "hang"
    /\ clear(Cur(NoFault)).exc # "hang"

(***************************************************************************)
(* C40: between public calls the read offset is not beyond the write       *)
(* offset and the write offset is not beyond the size of the buffer, so    *)
(* that neither getBufferReadRemaining() nor getBufferWriteRemaining()     *)
(* wraps around; in particular after load() replayed a file that is not    *)
(* empty and opened the event log.                                         *)
(***************************************************************************)
C40_OffsetsOrdered ==
  alive => readOffset <= Len(buffer) /\ Len(buffer) <= bufSize

====
